---- MODULE Spec2Model ----
(***************************************************************************)
(* Model of the correlation / prediction engine of kalman-viz              *)
(* (src/src/correlation.ts) and of the two FileParser extraction helpers   *)
(* it calls (src/unnamed/part_000).                                         *)
(*                                                                         *)
(* Numbers.  A JavaScript number is modelled as an exact rational          *)
(* [n |-> numerator, d |-> denominator] in lowest terms with d > 0, or one *)
(* of the three non-finite values, which have d = 0:  NaN is n = 0,        *)
(* +Infinity is n = 1 and -Infinity is n = -1.  Arithmetic follows the     *)
(* IEEE rules for the non-finite values (x/0, Infinity - Infinity, ...).   *)
(* Rounding of finite results, overflow of finite results to Infinity and  *)
(* the sign of zero are not modelled.                                      *)
(*                                                                         *)
(* The value of Math.sqrt is in general irrational, so the one number that *)
(* is computed with it, the correlation coefficient, is a "surd"           *)
(* [s |-> sign, n |-> p, d |-> q] standing for s * sqrt(p/q), p/q in       *)
(* lowest terms, with the same d = 0 encoding of NaN and +/-Infinity.      *)
(***************************************************************************)
EXTENDS Integers, Sequences, FiniteSets, TLC

VARIABLES
    xValues,      \* SpecStats: first argument of the statistics primitives
    yValues,      \* SpecStats: second argument of the statistics primitives
    corr,         \* SpecStats: result of calculateCorrelation, or NoResult
    regr,         \* SpecStats: result of linearRegression, or NoResult
    sweepFiles,   \* Spec: the LoadedFile[] handed to buildCorrelationMatrix
    allRuns,      \* Spec: the observations buildCorrelationMatrix aggregated
    phase,        \* Spec: "load", then "built"; SpecPredict: "input", then
                  \* "predicted"; SpecStats: "stats"; SpecRank: "load", "built",
                  \* then "strongest" or "top"; SpecParse: "params", then
                  \* "paramsDone", or "gps", then "gpsDone"
    matrix,       \* Spec: the Map returned by buildCorrelationMatrix
    gpsFile,      \* SpecPredict: the GPSErrorFile handed to predictParameters
    models,       \* SpecPredict: the PredictionModel[] handed to it
    predictions,  \* SpecPredict: the Record returned by predictParameters
    threshold,    \* SpecRank: the threshold argument of findStrongestCorrelations
    strongest,    \* SpecRank: the CorrelationResult[] it returned
    topN,         \* SpecRank: the topN argument of getTopPredictionModels
    topModels,    \* SpecRank: the PredictionModel[] it returned
    rawInput,     \* SpecParse: the raw JSON object handed to a FileParser helper
    parsed,       \* SpecParse: the Record the helper returned
    loadedFiles,  \* SpecApp: App.loadedFiles
    correlationMatrix,  \* SpecApp: App.correlationMatrix, null or a Map
    predictionModels,   \* SpecApp: App.predictionModels
    batches,      \* SpecApp: the calls of handleFiles made so far, each with
                  \* its files and the index of the file it is waiting for
    predictionControls  \* SpecApp: the display style of the prediction
                        \* controls, the number of file options of their select
                  \* predictionGpsFile

vars == <<xValues, yValues, corr, regr, sweepFiles, allRuns, phase, matrix,
          gpsFile, models, predictions, threshold, strongest, topN, topModels,
          rawInput, parsed, loadedFiles, correlationMatrix, predictionModels,
          batches, predictionControls>>

statVars == <<xValues, yValues, corr, regr>>
matrixVars == <<sweepFiles, allRuns, matrix>>
predictVars == <<gpsFile, models, predictions>>
rankVars == <<threshold, strongest, topN, topModels>>
parseVars == <<rawInput, parsed>>
appVars == <<loadedFiles, correlationMatrix, predictionModels, batches, predictionControls>>

-----------------------------------------------------------------------------
(* Bounds of the model. *)

MaxLen == 3      \* longest argument of the statistics primitives
MaxVal == 2      \* their elements are 0..MaxVal
MaxInput == 4    \* files handed to buildCorrelationMatrix, plus the runs
                 \* and sections they hold
MaxModels == 2   \* models handed to predictParameters
MaxSections == 3 \* sections of the file handed to the ranking functions

-----------------------------------------------------------------------------
(* JavaScript numbers. *)

Abs(i) == IF i < 0 THEN -i ELSE i

Sign(i) == IF i < 0 THEN -1 ELSE IF i > 0 THEN 1 ELSE 0

RECURSIVE GCD(_, _)
GCD(a, b) == IF b = 0 THEN a ELSE GCD(b, a % b)

\* The rational p/q (q # 0) in lowest terms with a positive denominator.
Rat(p, q) ==
    LET g == GCD(Abs(p), Abs(q))
    IN  [n |-> Sign(q) * (p \div g), d |-> Abs(q) \div g]

Num(i) == [n |-> i, d |-> 1]
Zero == Num(0)
One == Num(1)
NaN == [n |-> 0, d |-> 0]
Infinity(s) == [n |-> s, d |-> 0]

IsNaNNum(a) == a.d = 0 /\ a.n = 0
IsInfNum(a) == a.d = 0 /\ a.n # 0
IsFiniteNum(a) == a.d > 0

\* a + b
JAdd(a, b) ==
    IF IsNaNNum(a) \/ IsNaNNum(b) THEN NaN
    ELSE IF IsInfNum(a) /\ IsInfNum(b) THEN (IF a.n = b.n THEN a ELSE NaN)
    ELSE IF IsInfNum(a) THEN a
    ELSE IF IsInfNum(b) THEN b
    ELSE IF a.d = 1 /\ b.d = 1 THEN Num(a.n + b.n)
    ELSE Rat(a.n * b.d + b.n * a.d, a.d * b.d)

\* a * b
JMul(a, b) ==
    IF IsNaNNum(a) \/ IsNaNNum(b) THEN NaN
    ELSE IF IsInfNum(a) \/ IsInfNum(b)
         THEN (IF a.n = 0 \/ b.n = 0 THEN NaN
               ELSE Infinity(Sign(a.n) * Sign(b.n)))
    ELSE IF a.d = 1 /\ b.d = 1 THEN Num(a.n * b.n)
    ELSE Rat(a.n * b.n, a.d * b.d)

JNeg(a) == [n |-> -a.n, d |-> a.d]

\* a - b
JSub(a, b) == JAdd(a, JNeg(b))

\* a / b
JDiv(a, b) ==
    IF IsNaNNum(a) \/ IsNaNNum(b) THEN NaN
    ELSE IF IsInfNum(a)
         THEN (IF IsInfNum(b) THEN NaN
               ELSE Infinity(a.n * (IF b.n < 0 THEN -1 ELSE 1)))
    ELSE IF IsInfNum(b) THEN Zero
    ELSE IF b.n = 0
         THEN (IF a.n = 0 THEN NaN ELSE Infinity(Sign(a.n)))
    ELSE Rat(a.n * b.d, a.d * b.n)

\* a > b ; every comparison with NaN is false
JGt(a, b) ==
    /\ ~IsNaNNum(a)
    /\ ~IsNaNNum(b)
    /\ IF IsInfNum(a) THEN a.n = 1 /\ b # a
       ELSE IF IsInfNum(b) THEN b.n = -1
       ELSE a.n * b.d > b.n * a.d

\* Math.pow(a, 2)
JSquare(a) == JMul(a, a)

-----------------------------------------------------------------------------
(* Surds: the values of numerator / Math.sqrt(radicand). *)

SurdZero == [s |-> 0, n |-> 0, d |-> 1]
SurdOne == [s |-> 1, n |-> 1, d |-> 1]
SurdNaN == [s |-> 0, n |-> 0, d |-> 0]
SurdInfinity(s) == [s |-> s, n |-> 1, d |-> 0]

IsFiniteSurd(c) == c.d > 0

\* num / Math.sqrt(rad), where Math.sqrt(rad) is known not to be 0
DivBySqrt(num, rad) ==
    IF IsNaNNum(num) \/ IsNaNNum(rad) THEN SurdNaN
    ELSE IF rad.n < 0 THEN SurdNaN                 \* Math.sqrt(negative) is NaN
    ELSE IF IsInfNum(rad)
         THEN (IF IsInfNum(num) THEN SurdNaN ELSE SurdZero)
    ELSE IF IsInfNum(num) THEN SurdInfinity(num.n)
    ELSE LET sq == JDiv(JSquare(num), rad)
         IN  [s |-> Sign(num.n), n |-> sq.n, d |-> sq.d]

\* Math.abs(c) >= t for a surd c and a number t ; false when either is NaN
SurdAbsGeq(c, t) ==
    IF (c.d = 0 /\ c.s = 0) \/ IsNaNNum(t) THEN FALSE
    ELSE IF t.n < 0 THEN TRUE                       \* Math.abs(c) >= 0 > t
    ELSE IF c.d = 0 THEN TRUE                       \* Math.abs(c) is Infinity
    ELSE IF IsInfNum(t) THEN FALSE
    ELSE c.n * t.d * t.d >= t.n * t.n * c.d

\* Math.abs(a) > Math.abs(b) for finite surds
SurdAbsGt(a, b) == a.n * b.d > b.n * a.d

-----------------------------------------------------------------------------
(* Statistics primitives (correlation.ts). *)

\* xs.reduce((sum, x, i) => sum + f(i), 0), for i up to k
RECURSIVE Reduce(_, _)
Reduce(f, k) == IF k = 0 THEN Zero ELSE JAdd(Reduce(f, k - 1), f[k])

SumOf(f) == Reduce(f, Len(f))

\* ys[i] as an operand: an index past the end reads undefined, which is NaN
\* in arithmetic
At(ys, i) == IF i \in DOMAIN ys THEN ys[i] ELSE NaN

\* The terms x * yValues[i] of sumXY.
Products(xs, ys) == [i \in 1..Len(xs) |-> JMul(xs[i], At(ys, i))]

\* Mutant: the length comparison is forgotten.
LengthsRejected_OnlyEmpty(xs, ys) == Len(xs) = 0

\* xValues.length !== yValues.length || xValues.length === 0
LengthsRejected(xs, ys) == Len(xs) # Len(ys) \/ Len(xs) = 0

\* Mutant: the factor n is forgotten.
Numerator_NoCount(n, sumX, sumY, sumXY) == JSub(sumXY, JMul(sumX, sumY))

\* Mutant: the product of the sums is not subtracted.
Numerator_NoSubtraction(n, sumX, sumY, sumXY) == JMul(n, sumXY)

\* n * sumXY - sumX * sumY
Numerator(n, sumX, sumY, sumXY) == JSub(JMul(n, sumXY), JMul(sumX, sumY))

\* Mutant: the second factor uses sumX2 where sumY2 belongs.
Radicand_WrongSquares(n, sumX, sumY, sumX2, sumY2) ==
    JMul(JSub(JMul(n, sumX2), JMul(sumX, sumX)),
         JSub(JMul(n, sumX2), JMul(sumY, sumY)))

\* The argument of Math.sqrt in the denominator.
Radicand(n, sumX, sumY, sumX2, sumY2) ==
    JMul(JSub(JMul(n, sumX2), JMul(sumX, sumX)),
         JSub(JMul(n, sumY2), JMul(sumY, sumY)))

\* Mutant: the zero denominator is not special-cased.
IsZeroDenominator_Never(radicand) == FALSE

\* denominator === 0
IsZeroDenominator(radicand) == radicand = Zero

calculateCorrelation(xs, ys) ==
    IF LengthsRejected(xs, ys) THEN SurdZero
    ELSE
      LET n == Num(Len(xs))
          sumX == SumOf(xs)
          sumY == SumOf(ys)
          sumXY == SumOf(Products(xs, ys))
          sumX2 == SumOf(Products(xs, xs))
          sumY2 == SumOf(Products(ys, ys))
          numerator == Numerator(n, sumX, sumY, sumXY)
          radicand == Radicand(n, sumX, sumY, sumX2, sumY2)
      IN  IF IsZeroDenominator(radicand) THEN SurdZero
          ELSE DivBySqrt(numerator, radicand)

ZeroRegression == [slope |-> Zero, intercept |-> Zero, rSquared |-> Zero]

\* Mutant: a single point is accepted.
TooFewPoints_OnlyEmpty(xs, ys) == Len(xs) # Len(ys) \/ Len(xs) < 1

\* xValues.length !== yValues.length || xValues.length < 2
TooFewPoints(xs, ys) == Len(xs) # Len(ys) \/ Len(xs) < 2

\* (n * sumXY - sumX * sumY) / (n * sumX2 - sumX * sumX)
Slope(n, sumX, sumY, sumXY, sumX2) ==
    JDiv(JSub(JMul(n, sumXY), JMul(sumX, sumY)),
         JSub(JMul(n, sumX2), JMul(sumX, sumX)))

\* Mutant: the division by n is forgotten.
Intercept_NoDivide(n, sumX, sumY, slope) == JSub(sumY, JMul(slope, sumX))

\* (sumY - slope * sumX) / n
Intercept(n, sumX, sumY, slope) == JDiv(JSub(sumY, JMul(slope, sumX)), n)

\* 1 - ssResidual / ssTotal
RSquared(xs, ys, n, sumY, slope, intercept) ==
    LET yMean == JDiv(sumY, n)
        ssTotal == SumOf([i \in 1..Len(ys) |-> JSquare(JSub(ys[i], yMean))])
        ssResidual ==
            SumOf([i \in 1..Len(ys) |->
                     JSquare(JSub(ys[i], JAdd(JMul(slope, At(xs, i)), intercept)))])
    IN  JSub(One, JDiv(ssResidual, ssTotal))

linearRegression(xs, ys) ==
    IF TooFewPoints(xs, ys) THEN ZeroRegression
    ELSE
      LET n == Num(Len(xs))
          sumX == SumOf(xs)
          sumY == SumOf(ys)
          sumXY == SumOf(Products(xs, ys))
          sumX2 == SumOf(Products(xs, xs))
          slope == Slope(n, sumX, sumY, sumXY, sumX2)
          intercept == Intercept(n, sumX, sumY, slope)
      IN  [slope |-> slope,
           intercept |-> intercept,
           rSquared |-> RSquared(xs, ys, n, sumY, slope, intercept)]

-----------------------------------------------------------------------------
(* JavaScript objects and Maps whose key order is observable are records   *)
(* [keys |-> the keys in insertion order, val |-> the function from key to *)
(* value].  The raw JSON objects that are only read by key are TLA+        *)
(* functions on their keys; a key outside the DOMAIN is a property that    *)
(* reads as undefined.                                                     *)

EmptyObj == [keys |-> <<>>, val |-> <<>>]

ObjKeys(o) == o.keys

ObjHas(o, key) == key \in DOMAIN o.val

ObjGet(o, key) == o.val[key]

\* o[key] = val : an existing key keeps its place, a new one is appended
ObjSet(o, key, val) ==
    IF ObjHas(o, key)
    THEN [o EXCEPT !.val[key] = val]
    ELSE [keys |-> Append(o.keys, key), val |-> (key :> val) @@ o.val]

\* The set of the keys of a key list
KeySet(keys) == {keys[i] : i \in 1..Len(keys)}

\* The object with the given keys, in that order, and the value vals[key] of each.
ObjOf(keys, vals) ==
    [keys |-> keys, val |-> [key \in KeySet(keys) |-> vals[key]]]

\* JSON null
Null == [n |-> 0, d |-> -1]

-----------------------------------------------------------------------------
(* FileParser helpers (parser.ts). *)

\* Mutant: "?? 0" is forgotten, a missing value stays undefined.
OptAxis_NoDefault(obj, group, axis) ==
    IF /\ group \in DOMAIN obj
       /\ obj[group] # Null
       /\ axis \in DOMAIN obj[group]
       /\ obj[group][axis] # Null
    THEN obj[group][axis]
    ELSE [undefined |-> TRUE]     \* undefined

\* group?.axis ?? 0
OptAxis(obj, group, axis) ==
    IF /\ group \in DOMAIN obj
       /\ obj[group] # Null
       /\ axis \in DOMAIN obj[group]
       /\ obj[group][axis] # Null
    THEN obj[group][axis]
    ELSE Zero

\* gpsError.fuzziness?.group?.axis ?? 0
OptFuzzAxis(gpsError, group, axis) ==
    IF "fuzziness" \in DOMAIN gpsError /\ gpsError["fuzziness"] # Null
    THEN OptAxis(gpsError["fuzziness"], group, axis)
    ELSE Zero

\* The keys of the 18 assignments of extractGPSErrorDimensions, in program order.
DimensionNames ==
    <<"position.x", "position.y", "position.z",
      "velocity.x", "velocity.y", "velocity.z",
      "acceleration.x", "acceleration.y", "acceleration.z",
      "fuzziness.position.x", "fuzziness.position.y", "fuzziness.position.z",
      "fuzziness.velocity.x", "fuzziness.velocity.y", "fuzziness.velocity.z",
      "fuzziness.acceleration.x", "fuzziness.acceleration.y", "fuzziness.acceleration.z">>

extractGPSErrorDimensions(gpsError) ==
    [keys |-> DimensionNames,
     val |->
        ("position.x" :> OptAxis(gpsError, "position", "x"))
        @@ ("position.y" :> OptAxis(gpsError, "position", "y"))
        @@ ("position.z" :> OptAxis(gpsError, "position", "z"))
        @@ ("velocity.x" :> OptAxis(gpsError, "velocity", "x"))
        @@ ("velocity.y" :> OptAxis(gpsError, "velocity", "y"))
        @@ ("velocity.z" :> OptAxis(gpsError, "velocity", "z"))
        @@ ("acceleration.x" :> OptAxis(gpsError, "acceleration", "x"))
        @@ ("acceleration.y" :> OptAxis(gpsError, "acceleration", "y"))
        @@ ("acceleration.z" :> OptAxis(gpsError, "acceleration", "z"))
        @@ ("fuzziness.position.x" :> OptFuzzAxis(gpsError, "position", "x"))
        @@ ("fuzziness.position.y" :> OptFuzzAxis(gpsError, "position", "y"))
        @@ ("fuzziness.position.z" :> OptFuzzAxis(gpsError, "position", "z"))
        @@ ("fuzziness.velocity.x" :> OptFuzzAxis(gpsError, "velocity", "x"))
        @@ ("fuzziness.velocity.y" :> OptFuzzAxis(gpsError, "velocity", "y"))
        @@ ("fuzziness.velocity.z" :> OptFuzzAxis(gpsError, "velocity", "z"))
        @@ ("fuzziness.acceleration.x" :> OptFuzzAxis(gpsError, "acceleration", "x"))
        @@ ("fuzziness.acceleration.y" :> OptFuzzAxis(gpsError, "acceleration", "y"))
        @@ ("fuzziness.acceleration.z" :> OptFuzzAxis(gpsError, "acceleration", "z"))]

Families == <<"rPos", "rVelocity", "qPos", "qVelocity", "qAcceleration">>

\* if (params.key !== undefined) extracted[key] = params.key
CopyIfDefined(extracted, params, key) ==
    IF key \in DOMAIN params THEN ObjSet(extracted, key, params[key]) ELSE extracted

\* Mutant: the legacy value is expanded into X only.
ExtractFamily_LegacyOnlyX(extracted, params, fam) ==
    LET e1 == CopyIfDefined(extracted, params, fam \o "X")
        e2 == CopyIfDefined(e1, params, fam \o "Y")
        e3 == CopyIfDefined(e2, params, fam \o "Z")
    IN  IF (fam \o "XZ") \in DOMAIN params
        THEN ObjSet(e3, fam \o "X", params[fam \o "XZ"])
        ELSE e3

\* The four statements extractFinalParameters runs for one family.
ExtractFamily(extracted, params, fam) ==
    LET e1 == CopyIfDefined(extracted, params, fam \o "X")
        e2 == CopyIfDefined(e1, params, fam \o "Y")
        e3 == CopyIfDefined(e2, params, fam \o "Z")
    IN  IF (fam \o "XZ") \in DOMAIN params
        THEN ObjSet(ObjSet(e3, fam \o "X", params[fam \o "XZ"]),
                    fam \o "Z", params[fam \o "XZ"])
        ELSE e3

RECURSIVE ExtractFamilies(_, _)
ExtractFamilies(params, k) ==
    IF k = 0 THEN EmptyObj
    ELSE ExtractFamily(ExtractFamilies(params, k - 1), params, Families[k])

extractFinalParameters(params) == ExtractFamilies(params, Len(Families))

-----------------------------------------------------------------------------
(* buildCorrelationMatrix (correlation.ts). *)

\* `${file.name} - Run ${result.runIndex}`
RunLabel(file, result) == file.name \o " - Run " \o ToString(result.runIndex)

\* `${file.name} - ${section.section.name}`
SectionLabel(file, section) == file.name \o " - " \o section.section.name

\* Mutant: the runs of a sweep summary do not share the file's input vector,
\* each run has one of its own (position.x is its run index).
RunsOfFile_PerRunInput(file) ==
    IF file.type = "sweep-summary"
    THEN [i \in 1..Len(file.data.allResults) |->
            [gpsErrors |->
                 extractGPSErrorDimensions(
                     [position |-> [x |-> Num(file.data.allResults[i].runIndex)]]),
             finalParams |->
                 extractFinalParameters(file.data.allResults[i].finalParams),
             label |-> RunLabel(file, file.data.allResults[i])]]
    ELSE IF file.type = "section-sweep"
    THEN [i \in 1..Len(file.data.sections) |->
            LET section == file.data.sections[i]
            IN  [gpsErrors |-> extractGPSErrorDimensions(section.gpsErrorProfile),
                 finalParams |->
                     extractFinalParameters(section.bestResult.finalParameters),
                 label |-> SectionLabel(file, section)]]
    ELSE <<>>

\* The entries one file pushes onto allRuns.
RunsOfFile(file) ==
    IF file.type = "sweep-summary"
    THEN LET gpsErrors == extractGPSErrorDimensions(file.data.gpsError)
         IN  [i \in 1..Len(file.data.allResults) |->
                [gpsErrors |-> gpsErrors,
                 finalParams |->
                     extractFinalParameters(file.data.allResults[i].finalParams),
                 label |-> RunLabel(file, file.data.allResults[i])]]
    ELSE IF file.type = "section-sweep"
    THEN [i \in 1..Len(file.data.sections) |->
            LET section == file.data.sections[i]
            IN  [gpsErrors |-> extractGPSErrorDimensions(section.gpsErrorProfile),
                 finalParams |->
                     extractFinalParameters(section.bestResult.finalParameters),
                 label |-> SectionLabel(file, section)]]
    ELSE <<>>

\* Mutant: each file's runs are put in front of the earlier ones.
RECURSIVE AggregateRuns_Prepend(_, _)
AggregateRuns_Prepend(files, k) ==
    IF k = 0 THEN <<>>
    ELSE RunsOfFile(files[k]) \o AggregateRuns_Prepend(files, k - 1)

RECURSIVE AggregateRuns(_, _)
AggregateRuns(files, k) ==
    IF k = 0 THEN <<>>
    ELSE AggregateRuns(files, k - 1) \o RunsOfFile(files[k])

\* Mutant: the parameter value is not tested for NaN or Infinity.
IsValidPair_YUnchecked(run, errorDim, param) ==
    /\ ObjHas(run.gpsErrors, errorDim)
    /\ ObjHas(run.finalParams, param)
    /\ IsFiniteNum(ObjGet(run.gpsErrors, errorDim))

\* xVal !== undefined && yVal !== undefined && !isNaN(..) && isFinite(..)
IsValidPair(run, errorDim, param) ==
    /\ ObjHas(run.gpsErrors, errorDim)
    /\ ObjHas(run.finalParams, param)
    /\ IsFiniteNum(ObjGet(run.gpsErrors, errorDim))
    /\ IsFiniteNum(ObjGet(run.finalParams, param))

\* The CorrelationResult stored for one (errorDim, param) pair.
CorrelationOf(runs, errorDim, param) ==
    LET kept == SelectSeq(runs, LAMBDA run : IsValidPair(run, errorDim, param))
        xs == [i \in 1..Len(kept) |-> ObjGet(kept[i].gpsErrors, errorDim)]
        ys == [i \in 1..Len(kept) |-> ObjGet(kept[i].finalParams, param)]
    IN  [xLabel |-> errorDim,
         yLabel |-> param,
         coefficient |-> calculateCorrelation(xs, ys),
         dataPoints |-> [i \in 1..Len(kept) |->
                           [x |-> xs[i], y |-> ys[i], label |-> kept[i].label]]]

\* Mutant: the rows of the 18 dimensions are created before the runs are
\* looked at, so that no run leaves 18 empty rows.
CorrelateRuns_RowsFirst(runs) ==
    IF Len(runs) = 0
    THEN ObjOf(DimensionNames, [errorDim \in KeySet(DimensionNames) |-> EmptyObj])
    ELSE LET gpsErrorDimensions == ObjKeys(runs[1].gpsErrors)
             parameterNames == ObjKeys(runs[1].finalParams)
             errorMap(errorDim) ==
                 ObjOf(parameterNames,
                       [param \in KeySet(parameterNames) |->
                           CorrelationOf(runs, errorDim, param)])
         IN  ObjOf(gpsErrorDimensions,
                   [errorDim \in KeySet(gpsErrorDimensions) |-> errorMap(errorDim)])

\* Mutant: the parameter names are read from the last run, not the first.
CorrelateRuns_LastRun(runs) ==
    IF Len(runs) = 0 THEN EmptyObj
    ELSE LET gpsErrorDimensions == ObjKeys(runs[1].gpsErrors)
             parameterNames == ObjKeys(runs[Len(runs)].finalParams)
             errorMap(errorDim) ==
                 ObjOf(parameterNames,
                       [param \in KeySet(parameterNames) |->
                           CorrelationOf(runs, errorDim, param)])
         IN  ObjOf(gpsErrorDimensions,
                   [errorDim \in KeySet(gpsErrorDimensions) |-> errorMap(errorDim)])

\* Mutant: the parameter names are read from the first run that has any.
CorrelateRuns_FirstNonEmpty(runs) ==
    IF Len(runs) = 0 THEN EmptyObj
    ELSE LET gpsErrorDimensions == ObjKeys(runs[1].gpsErrors)
             named == {i \in 1..Len(runs) : Len(ObjKeys(runs[i].finalParams)) > 0}
             first == IF named = {} THEN 1
                      ELSE CHOOSE i \in named : \A j \in named : i <= j
             parameterNames == ObjKeys(runs[first].finalParams)
             errorMap(errorDim) ==
                 ObjOf(parameterNames,
                       [param \in KeySet(parameterNames) |->
                           CorrelationOf(runs, errorDim, param)])
         IN  ObjOf(gpsErrorDimensions,
                   [errorDim \in KeySet(gpsErrorDimensions) |-> errorMap(errorDim)])

\* Lines 69-113: the matrix over the aggregated runs.
CorrelateRuns(runs) ==
    IF Len(runs) = 0 THEN EmptyObj
    ELSE LET gpsErrorDimensions == ObjKeys(runs[1].gpsErrors)
             parameterNames == ObjKeys(runs[1].finalParams)
             errorMap(errorDim) ==
                 ObjOf(parameterNames,
                       [param \in KeySet(parameterNames) |->
                           CorrelationOf(runs, errorDim, param)])
         IN  ObjOf(gpsErrorDimensions,
                   [errorDim \in KeySet(gpsErrorDimensions) |-> errorMap(errorDim)])

buildCorrelationMatrix(files) == CorrelateRuns(AggregateRuns(files, Len(files)))

-----------------------------------------------------------------------------
(* findStrongestCorrelations, buildPredictionModel and                     *)
(* getTopPredictionModels (correlation.ts).                                *)

\* An argument that is not passed
Undefined == [undefined |-> TRUE]

\* paramMap.forEach: the results of one row in insertion order
RowResults(paramMap) ==
    [i \in 1..Len(paramMap.keys) |-> paramMap.val[paramMap.keys[i]]]

\* matrix.forEach(paramMap => paramMap.forEach(result => push(result))) over
\* the first k rows
RECURSIVE ResultsOfRows(_, _)
ResultsOfRows(m, k) ==
    IF k = 0 THEN <<>>
    ELSE ResultsOfRows(m, k - 1) \o RowResults(m.val[m.keys[k]])

AllResults(m) == ResultsOfRows(m, Len(m.keys))

\* Mutant: an unstable sort, r goes in front of the elements of equal strength.
InsertByStrength_BeforeTies(sorted, r) ==
    LET k == Cardinality({i \in 1..Len(sorted) :
                            SurdAbsGt(sorted[i].coefficient, r.coefficient)})
    IN  SubSeq(sorted, 1, k) \o <<r>> \o SubSeq(sorted, k + 1, Len(sorted))

\* Array.prototype.sort is stable: r goes behind every element the
\* comparator does not put it in front of, i.e. every e with
\* Math.abs(r.coefficient) - Math.abs(e.coefficient) <= 0.
InsertByStrength(sorted, r) ==
    LET k == Cardinality({i \in 1..Len(sorted) :
                            ~SurdAbsGt(r.coefficient, sorted[i].coefficient)})
    IN  SubSeq(sorted, 1, k) \o <<r>> \o SubSeq(sorted, k + 1, Len(sorted))

\* results.sort((a, b) => Math.abs(b.coefficient) - Math.abs(a.coefficient))
\* of the first k results
RECURSIVE SortByStrength(_, _)
SortByStrength(results, k) ==
    IF k = 0 THEN <<>>
    ELSE InsertByStrength(SortByStrength(results, k - 1), results[k])

\* threshold: number = 0.5
DefaultThreshold == Rat(1, 2)

\* Mutant: the comparison is > instead of >=.
IsStrong_Strict(result, t) ==
    /\ SurdAbsGeq(result.coefficient, t)
    /\ ~(result.coefficient.d > 0 /\ t.d > 0
          /\ result.coefficient.n * t.d * t.d = t.n * t.n * result.coefficient.d)

\* Math.abs(result.coefficient) >= threshold
IsStrong(result, t) == SurdAbsGeq(result.coefficient, t)

findStrongestCorrelations(m, thresholdArg) ==
    LET t == IF thresholdArg = Undefined THEN DefaultThreshold ELSE thresholdArg
        strong == SelectSeq(AllResults(m), LAMBDA result : IsStrong(result, t))
    IN  SortByStrength(strong, Len(strong))

\* Mutant: the coefficients are stored as [slope, intercept].
buildPredictionModel_SlopeFirst(correlation) ==
    LET xs == [i \in 1..Len(correlation.dataPoints) |-> correlation.dataPoints[i].x]
        ys == [i \in 1..Len(correlation.dataPoints) |-> correlation.dataPoints[i].y]
        regression == linearRegression(xs, ys)
    IN  [inputDimension |-> correlation.xLabel,
         outputParameter |-> correlation.yLabel,
         modelType |-> "linear",
         coefficients |-> <<regression.slope, regression.intercept>>,
         rSquared |-> regression.rSquared]

buildPredictionModel(correlation) ==
    LET xs == [i \in 1..Len(correlation.dataPoints) |-> correlation.dataPoints[i].x]
        ys == [i \in 1..Len(correlation.dataPoints) |-> correlation.dataPoints[i].y]
        regression == linearRegression(xs, ys)
    IN  [inputDimension |-> correlation.xLabel,
         outputParameter |-> correlation.yLabel,
         modelType |-> "linear",
         coefficients |-> <<regression.intercept, regression.slope>>,
         rSquared |-> regression.rSquared]

\* topN: number = 10
DefaultTopN == 10

\* Mutant: the end index is taken as inclusive.
SliceTo_Inclusive(array, end) ==
    LET last == IF end >= 0 THEN end + 1 ELSE Len(array) + end + 1
    IN  SubSeq(array, 1, IF last > Len(array) THEN Len(array) ELSE last)

\* array.slice(0, end) for an integer end
SliceTo(array, end) ==
    LET last == IF end >= 0 THEN end ELSE Len(array) + end
    IN  SubSeq(array, 1, IF last > Len(array) THEN Len(array) ELSE last)

getTopPredictionModels(m, topNArg) ==
    LET n == IF topNArg = Undefined THEN DefaultTopN ELSE topNArg.n
        allCorrelations == AllResults(m)
        topCorrelations ==
            SliceTo(SortByStrength(allCorrelations, Len(allCorrelations)), n)
    IN  [i \in 1..Len(topCorrelations) |-> buildPredictionModel(topCorrelations[i])]

-----------------------------------------------------------------------------
(* predictParameters (correlation.ts). *)

\* The threshold of "if (model.rSquared > 0.3)".
QualityGate == Rat(3, 10)

\* Mutant: the test is "inputValue && ...", which also rejects the value 0.
HasInputAndCoefficients_Truthy(gpsErrorDims, model) ==
    /\ ObjHas(gpsErrorDims, model.inputDimension)
    /\ ObjGet(gpsErrorDims, model.inputDimension) # Zero
    /\ "coefficients" \in DOMAIN model
    /\ Len(model.coefficients) >= 2

\* inputValue !== undefined && model.coefficients && model.coefficients.length >= 2
HasInputAndCoefficients(gpsErrorDims, model) ==
    /\ ObjHas(gpsErrorDims, model.inputDimension)
    /\ "coefficients" \in DOMAIN model
    /\ Len(model.coefficients) >= 2

\* coefficients[0] + coefficients[1] * inputValue
Predicted(gpsErrorDims, model) ==
    JAdd(model.coefficients[1],
         JMul(model.coefficients[2], ObjGet(gpsErrorDims, model.inputDimension)))

\* Mutant: the gate is >= instead of >.
PassesGate_Inclusive(model) ==
    JGt(model.rSquared, QualityGate) \/ model.rSquared = QualityGate

PassesGate(model) == JGt(model.rSquared, QualityGate)

\* Mutant: an output parameter already written is not overwritten.
PredictOne_FirstWins(acc, gpsErrorDims, model) ==
    IF /\ HasInputAndCoefficients(gpsErrorDims, model)
       /\ PassesGate(model)
       /\ ~ObjHas(acc, model.outputParameter)
    THEN ObjSet(acc, model.outputParameter, Predicted(gpsErrorDims, model))
    ELSE acc

\* The body of models.forEach for one model.
PredictOne(acc, gpsErrorDims, model) ==
    IF HasInputAndCoefficients(gpsErrorDims, model) /\ PassesGate(model)
    THEN ObjSet(acc, model.outputParameter, Predicted(gpsErrorDims, model))
    ELSE acc

RECURSIVE PredictAll(_, _, _)
PredictAll(gpsErrorDims, ms, k) ==
    IF k = 0 THEN EmptyObj
    ELSE PredictOne(PredictAll(gpsErrorDims, ms, k - 1), gpsErrorDims, ms[k])

predictParameters(gpsError, ms) ==
    PredictAll(extractGPSErrorDimensions(gpsError.gpsError), ms, Len(ms))

-----------------------------------------------------------------------------
(* Inputs. *)

NoResult == [pending |-> TRUE]

\* The variables of the ranking and parsing specifications, where unused
NoRanking ==
    /\ threshold = Undefined
    /\ strongest = <<>>
    /\ topN = Undefined
    /\ topModels = <<>>

NoParsing ==
    /\ rawInput = Undefined
    /\ parsed = EmptyObj

\* The fields of the App as its constructor leaves them
NoApp ==
    /\ loadedFiles = <<>>
    /\ correlationMatrix = Null
    /\ predictionModels = <<>>
    /\ batches = <<>>
    /\ predictionControls = [display |-> "none", options |-> 0]

\* Arguments of the statistics primitives.
Values == {Num(i) : i \in 0..MaxVal}
InputSeqs == UNION {[1..k -> Values] : k \in 0..MaxLen}

\* GPS-error objects: position.x is 1, 2 or Infinity (JSON 1e999); every
\* other field is missing.
GpsErrors == {[position |-> [x |-> v]] : v \in {Num(1), Num(2), Infinity(1)}}
SectionGpsErrors == {[position |-> [x |-> v]] : v \in {Num(1), Num(2)}}

\* Raw finalParams objects: rPosX may be missing or NaN.
ParamObjects ==
    {[rPosX |-> Num(1), rPosY |-> Num(2)],
     [rPosX |-> Num(2), rPosY |-> Num(1)],
     [rPosX |-> NaN, rPosY |-> Num(2)],
     [rPosY |-> Num(1)]}

\* The k-th file loaded.
FileName(k) == "f" \o ToString(k) \o ".json"

\* Files as the parser hands them over, before any run or section is added.
EmptyFiles(nm) ==
    {[name |-> nm, type |-> "sweep-summary",
      data |-> [gpsError |-> g, allResults |-> <<>>]] : g \in GpsErrors}
    \cup {[name |-> nm, type |-> "section-sweep", data |-> [sections |-> <<>>]]}
    \cup {[name |-> nm, type |-> "gps-error",
           data |-> [gpsError |-> [position |-> [x |-> One]]]]}

\* Run indices are not list positions: the k-th result listed is run 2k.
SweepResults(k) == {[runIndex |-> 2 * k, finalParams |-> p] : p \in ParamObjects}

\* The k-th section listed.
Sections(k) ==
    {[section |-> [name |-> "s" \o ToString(k)], gpsErrorProfile |-> g,
      bestResult |-> [finalParameters |-> p]] :
        g \in SectionGpsErrors, p \in ParamObjects}

ObsInFile(file) ==
    IF file.type = "sweep-summary" THEN Len(file.data.allResults)
    ELSE IF file.type = "section-sweep" THEN Len(file.data.sections)
    ELSE 0

RECURSIVE ObsCount(_, _)
ObsCount(files, k) ==
    IF k = 0 THEN 0 ELSE ObsCount(files, k - 1) + ObsInFile(files[k])

InputSize(files) == Len(files) + ObsCount(files, Len(files))

\* GPS-error files and models handed to predictParameters.
GpsFiles ==
    {[gpsError |-> [position |-> p]] : p \in {[x |-> One, y |-> Num(2)], [y |-> Num(2)]}}

\* rSquared below, at and above the gate, and the three non-finite numbers.
ModelShapes ==
    {[coefficients |-> <<One, Num(2)>>, rSquared |-> r] :
        r \in {Rat(1, 4), QualityGate, Rat(1, 2), NaN, Infinity(1), Infinity(-1)}}
    \cup {[coefficients |-> <<One>>, rSquared |-> Rat(1, 2)],
          [rSquared |-> Rat(1, 2)]}

Models ==
    {[inputDimension |-> d, outputParameter |-> p, modelType |-> "linear"] @@ sh :
        d \in {"position.x", "position.y", "altitude"},
        p \in {"rPosX", "rPosY"},
        sh \in ModelShapes}

\* File lists whose matrix is ranked: up to two files without any run or
\* section, one sweep summary with one or two runs, or one section sweep with
\* up to MaxSections sections.
RECURSIVE SectionLists(_)
SectionLists(k) ==
    IF k = 0 THEN {<<>>}
    ELSE {Append(l, sec) : l \in SectionLists(k - 1), sec \in Sections(k)}

RECURSIVE RunLists(_)
RunLists(k) ==
    IF k = 0 THEN {<<>>}
    ELSE {Append(l, r) : l \in RunLists(k - 1), r \in SweepResults(k)}

RankInputs ==
    {<<>>}
    \cup {<<f>> : f \in EmptyFiles(FileName(1))}
    \cup {<<f, g>> : f \in EmptyFiles(FileName(1)), g \in EmptyFiles(FileName(2))}
    \cup {<<[name |-> FileName(1), type |-> "sweep-summary",
             data |-> [gpsError |-> g, allResults |-> l]]>> :
             g \in GpsErrors, l \in RunLists(1) \cup RunLists(2)}
    \cup {<<[name |-> FileName(1), type |-> "section-sweep",
             data |-> [sections |-> l]]>> :
             l \in UNION {SectionLists(k) : k \in 1..MaxSections}}

\* Arguments of the ranking functions; Undefined is the argument left out.
Thresholds == {Undefined, Zero, Rat(9, 10), One}
TopNs == {Undefined, Num(0), Num(1), Num(2), Num(40)}

\* Raw finalParams objects handed to extractFinalParameters: any of the keys
\* FX, FY, FZ and the legacy FXZ of one family F, each 1 or 2, and possibly a
\* key that is no tuning parameter.
AxisSuffixes == {"X", "Y", "Z", "XZ"}

FamilyObjects(fam) ==
    UNION {{[key \in {fam \o a : a \in S} |->
                v[CHOOSE a \in S : fam \o a = key]] : v \in [S -> {One, Num(2)}]} :
             S \in SUBSET AxisSuffixes}

RawParamObjects ==
    UNION {FamilyObjects(fam) \cup {o @@ ("bestScore" :> Num(2)) : o \in FamilyObjects(fam)} :
             fam \in KeySet(Families)}

\* Raw gpsError objects handed to extractGPSErrorDimensions: each group
\* missing, null, or holding axes that are numbers, null or missing.
RawGroups(field) ==
    {<<>>, field :> Null, field :> [x |-> One],
     field :> [x |-> Null, y |-> Num(2)],
     field :> [x |-> One, y |-> Num(2), z |-> Num(3)]}

RawFuzziness ==
    {<<>>, "fuzziness" :> Null, "fuzziness" :> [altitude |-> One]}
    \cup {"fuzziness" :> g : g \in RawGroups("position") \ {<<>>}}
    \cup {"fuzziness" :> [velocity |-> [z |-> Num(2)]]}

RawGpsErrors ==
    {p @@ v @@ f : p \in RawGroups("position"),
                   v \in {<<>>, "velocity" :> [y |-> Num(2)],
                          "acceleration" :> [z |-> Null]},
                   f \in RawFuzziness}

-----------------------------------------------------------------------------
(* SpecStats: the statistics primitives applied to drawn arguments. *)

InitStats ==
    /\ xValues \in InputSeqs
    /\ yValues \in InputSeqs
    /\ corr = NoResult
    /\ regr = NoResult
    /\ phase = "stats"
    /\ sweepFiles = <<>>
    /\ allRuns = <<>>
    /\ matrix = EmptyObj
    /\ gpsFile = NoResult
    /\ models = <<>>
    /\ predictions = EmptyObj
    /\ NoRanking
    /\ NoApp
    /\ NoParsing

CallCorrelation ==
    /\ phase = "stats"
    /\ corr = NoResult
    /\ corr' = calculateCorrelation(xValues, yValues)
    /\ UNCHANGED <<xValues, yValues, regr, phase, matrixVars, predictVars, rankVars, parseVars, appVars>>

CallRegression ==
    /\ phase = "stats"
    /\ regr = NoResult
    /\ regr' = linearRegression(xValues, yValues)
    /\ UNCHANGED <<xValues, yValues, corr, phase, matrixVars, predictVars, rankVars, parseVars, appVars>>

NextStats == CallCorrelation \/ CallRegression

SpecStats == InitStats /\ [][NextStats]_vars

-----------------------------------------------------------------------------
(* Spec: files are loaded one by one, then the matrix is built from them. *)

Init ==
    /\ sweepFiles = <<>>
    /\ phase = "load"
    /\ allRuns = <<>>
    /\ matrix = EmptyObj
    /\ xValues = <<>>
    /\ yValues = <<>>
    /\ corr = NoResult
    /\ regr = NoResult
    /\ gpsFile = NoResult
    /\ models = <<>>
    /\ predictions = EmptyObj
    /\ NoRanking
    /\ NoApp
    /\ NoParsing

LoadFile ==
    /\ phase = "load"
    /\ InputSize(sweepFiles) < MaxInput
    /\ \E f \in EmptyFiles(FileName(Len(sweepFiles) + 1)) :
         sweepFiles' = Append(sweepFiles, f)
    /\ UNCHANGED <<phase, allRuns, matrix, statVars, predictVars, rankVars, parseVars, appVars>>

\* The file being loaded holds one more run.
LoadRun ==
    /\ phase = "load"
    /\ Len(sweepFiles) > 0
    /\ sweepFiles[Len(sweepFiles)].type = "sweep-summary"
    /\ InputSize(sweepFiles) < MaxInput
    /\ \E r \in SweepResults(ObsInFile(sweepFiles[Len(sweepFiles)]) + 1) :
         sweepFiles' = [sweepFiles EXCEPT
                          ![Len(sweepFiles)].data.allResults = Append(@, r)]
    /\ UNCHANGED <<phase, allRuns, matrix, statVars, predictVars, rankVars, parseVars, appVars>>

\* The file being loaded holds one more section.
LoadSection ==
    /\ phase = "load"
    /\ Len(sweepFiles) > 0
    /\ sweepFiles[Len(sweepFiles)].type = "section-sweep"
    /\ InputSize(sweepFiles) < MaxInput
    /\ \E s \in Sections(ObsInFile(sweepFiles[Len(sweepFiles)]) + 1) :
         sweepFiles' = [sweepFiles EXCEPT
                          ![Len(sweepFiles)].data.sections = Append(@, s)]
    /\ UNCHANGED <<phase, allRuns, matrix, statVars, predictVars, rankVars, parseVars, appVars>>

BuildMatrix ==
    /\ phase = "load"
    /\ phase' = "built"
    /\ allRuns' = AggregateRuns(sweepFiles, Len(sweepFiles))
    /\ matrix' = buildCorrelationMatrix(sweepFiles)
    /\ UNCHANGED <<sweepFiles, statVars, predictVars, rankVars, parseVars, appVars>>

Next == LoadFile \/ LoadRun \/ LoadSection \/ BuildMatrix

Spec == Init /\ [][Next]_vars

-----------------------------------------------------------------------------
(* SpecPredict: predictParameters applied to drawn models. *)

InitPredict ==
    /\ gpsFile \in GpsFiles
    /\ models = <<>>
    /\ predictions = EmptyObj
    /\ phase = "input"
    /\ sweepFiles = <<>>
    /\ allRuns = <<>>
    /\ matrix = EmptyObj
    /\ xValues = <<>>
    /\ yValues = <<>>
    /\ corr = NoResult
    /\ regr = NoResult
    /\ NoRanking
    /\ NoApp
    /\ NoParsing

AddModel ==
    /\ phase = "input"
    /\ Len(models) < MaxModels
    /\ \E m \in Models : models' = Append(models, m)
    /\ UNCHANGED <<gpsFile, predictions, phase, matrixVars, statVars, rankVars, parseVars, appVars>>

CallPredict ==
    /\ phase = "input"
    /\ phase' = "predicted"
    /\ predictions' = predictParameters(gpsFile, models)
    /\ UNCHANGED <<gpsFile, models, matrixVars, statVars, rankVars, parseVars, appVars>>

NextPredict == AddModel \/ CallPredict

SpecPredict == InitPredict /\ [][NextPredict]_vars

-----------------------------------------------------------------------------
(* Properties of the statistics primitives, under SpecStats. *)

IsConstantSeq(seq) == \A i, j \in DOMAIN seq : seq[i] = seq[j]

\* C4: calculateCorrelation returns 0 whenever the two sequences have
\* different lengths or are both empty.
CorrelationRejectsBadLengths ==
    (/\ corr # NoResult
     /\ \/ Len(xValues) # Len(yValues)
        \/ Len(xValues) = 0 /\ Len(yValues) = 0)
    => corr = SurdZero

CorrelationRejectsBadLengths_Witness ==
    corr = SurdZero /\ Len(xValues) = 2 /\ Len(yValues) = 1

CorrelationCommutes ==
    (corr # NoResult /\ Len(xValues) = Len(yValues))
    => corr = calculateCorrelation(yValues, xValues)

CorrelationCommutes_Witness ==
    /\ corr # NoResult
    /\ Len(xValues) = 3
    /\ Len(yValues) = 3
    /\ xValues # yValues
    /\ corr = [s |-> -1, n |-> 1, d |-> 4]

\* C8: for every sequence x with at least two distinct values,
\* calculateCorrelation(x, x) = 1.
CorrelationOfSelfIsOne ==
    (corr # NoResult /\ xValues = yValues /\ ~IsConstantSeq(xValues))
    => corr = SurdOne

CorrelationOfSelfIsOne_Witness ==
    corr = SurdOne /\ xValues = yValues /\ Len(xValues) = 3

\* C9: linearRegression returns {slope: 0, intercept: 0, rSquared: 0} whenever
\* the two sequences have different lengths or hold fewer than 2 points.
RegressionRejectsFewPoints ==
    (regr # NoResult /\ (Len(xValues) # Len(yValues) \/ Len(xValues) < 2))
    => regr = [slope |-> Zero, intercept |-> Zero, rSquared |-> Zero]

RegressionRejectsFewPoints_Witness ==
    /\ regr = [slope |-> Zero, intercept |-> Zero, rSquared |-> Zero]
    /\ Len(xValues) = 1
    /\ Len(yValues) = 1

\* The line through the first point and the first point with another x:
\* its slope b and its intercept a.
LineSlope ==
    LET j == CHOOSE j \in DOMAIN xValues : xValues[j] # xValues[1]
    IN  JDiv(JSub(yValues[j], yValues[1]), JSub(xValues[j], xValues[1]))

LineIntercept == JSub(yValues[1], JMul(LineSlope, xValues[1]))

PointsOnLine ==
    \A i \in DOMAIN xValues :
        yValues[i] = JAdd(LineIntercept, JMul(LineSlope, xValues[i]))

\* C10: for at least 2 points lying exactly on a line y = a + b*x with
\* non-constant x and b # 0, linearRegression returns slope b, intercept a and
\* rSquared 1.
RegressionRecoversLine ==
    (/\ regr # NoResult
     /\ Len(xValues) = Len(yValues)
     /\ Len(xValues) >= 2
     /\ ~IsConstantSeq(xValues)
     /\ PointsOnLine
     /\ LineSlope # Zero)
    => regr = [slope |-> LineSlope, intercept |-> LineIntercept, rSquared |-> One]

RegressionRecoversLine_Witness ==
    /\ xValues = <<Num(0), Num(1), Num(2)>>
    /\ yValues = <<Num(0), Num(1), Num(2)>>
    /\ regr = [slope |-> One, intercept |-> Zero, rSquared |-> One]

\* C11: for equal-length sequences of at least 2 finite numbers, slope and
\* intercept of linearRegression are finite (also when all x are equal), and
\* rSquared is NaN or infinite only when y has zero variance.  The code
\* contradicts it: with all x equal the slope is 0 / 0.
RegressionOnlyRSquaredInvalid ==
    (/\ regr # NoResult
     /\ Len(xValues) = Len(yValues)
     /\ Len(xValues) >= 2)
    => /\ IsFiniteNum(regr.slope)
       /\ IsFiniteNum(regr.intercept)
       /\ ~IsFiniteNum(regr.rSquared) => IsConstantSeq(yValues)

-----------------------------------------------------------------------------
(* Properties of buildCorrelationMatrix, under Spec. *)

\* The CorrelationResult stored for a pair.
Stored(dim, param) == matrix.val[dim].val[param]

StoredPairs ==
    UNION {{<<dim, param>> : param \in DOMAIN matrix.val[dim].val} :
             dim \in DOMAIN matrix.val}

\* Both values of an observation exist and are finite.
BothFinite(obs, dim, param) ==
    /\ dim \in DOMAIN obs.gpsErrors.val
    /\ param \in DOMAIN obs.finalParams.val
    /\ obs.gpsErrors.val[dim].d > 0
    /\ obs.finalParams.val[param].d > 0

ExpectedPoints(dim, param) ==
    LET kept == SelectSeq(allRuns, LAMBDA obs : BothFinite(obs, dim, param))
    IN  [i \in 1..Len(kept) |->
           [x |-> kept[i].gpsErrors.val[dim],
            y |-> kept[i].finalParams.val[param],
            label |-> kept[i].label]]

\* C2: for every (dimension, parameter) pair of a built matrix, dataPoints
\* holds exactly one point per observation in which both values exist and are
\* finite, in observation order and with that observation's label; an
\* observation missing the parameter key adds no point to that pair only.
DataPointsAreTheFinitePairs ==
    phase = "built" =>
        \A pair \in StoredPairs :
            Stored(pair[1], pair[2]).dataPoints = ExpectedPoints(pair[1], pair[2])

DataPointsAreTheFinitePairs_Witness ==
    /\ phase = "built"
    /\ Len(allRuns) = 3
    /\ \E i \in 1..3 : "rPosX" \notin DOMAIN allRuns[i].finalParams.val
    /\ <<"position.x", "rPosX">> \in StoredPairs
    /\ <<"position.x", "rPosY">> \in StoredPairs
    /\ Len(Stored("position.x", "rPosX").dataPoints) = 2
    /\ Len(Stored("position.x", "rPosY").dataPoints) = 3

\* The observations the files before the f-th one yield.
ObsBefore(f) == ObsCount(sweepFiles, f - 1)

\* C3: each sweep-summary file yields one observation per entry of allResults,
\* all with the file's GPS-error vector, labelled "<file name> - Run <runIndex>";
\* each section-sweep file yields one per section, with the section's own
\* vector and its bestResult.finalParameters, labelled "<file name> - <section
\* name>"; other files yield none; the order is file order, then list order.
AggregationFollowsFiles ==
    phase = "built" =>
        /\ Len(allRuns) = ObsCount(sweepFiles, Len(sweepFiles))
        /\ \A f \in 1..Len(sweepFiles) :
             LET file == sweepFiles[f]
             IN  /\ file.type = "sweep-summary" =>
                      \A i \in 1..Len(file.data.allResults) :
                          LET obs == allRuns[ObsBefore(f) + i]
                              result == file.data.allResults[i]
                          IN  /\ obs.label = file.name \o " - Run "
                                               \o ToString(result.runIndex)
                              /\ obs.gpsErrors =
                                     extractGPSErrorDimensions(file.data.gpsError)
                              /\ obs.finalParams =
                                     extractFinalParameters(result.finalParams)
                 /\ file.type = "section-sweep" =>
                      \A i \in 1..Len(file.data.sections) :
                          LET obs == allRuns[ObsBefore(f) + i]
                              sec == file.data.sections[i]
                          IN  /\ obs.label = file.name \o " - " \o sec.section.name
                              /\ obs.gpsErrors =
                                     extractGPSErrorDimensions(sec.gpsErrorProfile)
                              /\ obs.finalParams =
                                     extractFinalParameters(
                                         sec.bestResult.finalParameters)

AggregationFollowsFiles_Witness ==
    /\ phase = "built"
    /\ Len(sweepFiles) = 2
    /\ sweepFiles[1].type = "sweep-summary"
    /\ sweepFiles[2].type = "section-sweep"
    /\ Len(allRuns) = 2
    /\ allRuns[1].label = "f1.json - Run 2"
    /\ allRuns[2].label = "f2.json - s1"

SameParameterKeysEverywhere ==
    (phase = "built" /\ Len(allRuns) > 0) =>
        \A dim \in KeySet(matrix.keys) :
            /\ KeySet(matrix.val[dim].keys) = KeySet(allRuns[1].finalParams.keys)
            /\ DOMAIN matrix.val[dim].val = KeySet(allRuns[1].finalParams.keys)

SameParameterKeysEverywhere_Witness ==
    /\ phase = "built"
    /\ Len(allRuns) = 2
    /\ allRuns[1].finalParams.keys = <<"rPosY">>
    /\ allRuns[2].finalParams.keys = <<"rPosX", "rPosY">>
    /\ Len(matrix.keys) = 18
    /\ matrix.val["position.x"].keys = <<"rPosY">>
    /\ matrix.val["fuzziness.acceleration.z"].keys = <<"rPosY">>

-----------------------------------------------------------------------------
(* Properties of predictParameters, under SpecPredict. *)

\* The model's inputDimension is present in the extracted input vector, it has
\* at least two coefficients, and its rSquared is strictly above 3/10 (as
\* +Infinity is, and NaN and -Infinity are not).
Qualifies(m) ==
    /\ m.inputDimension \in DOMAIN extractGPSErrorDimensions(gpsFile.gpsError).val
    /\ "coefficients" \in DOMAIN m
    /\ Len(m.coefficients) >= 2
    /\ \/ m.rSquared = Infinity(1)
       \/ m.rSquared.d > 0 /\ 10 * m.rSquared.n > 3 * m.rSquared.d

\* intercept + slope * x for the model's input dimension
LineValue(m) ==
    JAdd(m.coefficients[1],
         JMul(m.coefficients[2],
              extractGPSErrorDimensions(gpsFile.gpsError).val[m.inputDimension]))

\* C1: predictParameters emits an entry for an output parameter iff some model
\* for it has its inputDimension in the input vector, at least two
\* coefficients and rSquared > 0.3 (a model with rSquared exactly 0.3 is
\* dropped); the value emitted is coefficients[0] + coefficients[1] * input of
\* such a model.
PredictionGate ==
    phase = "predicted" =>
        \A p \in {"rPosX", "rPosY"} :
            LET emitting == {i \in 1..Len(models) :
                               models[i].outputParameter = p /\ Qualifies(models[i])}
            IN  /\ ObjHas(predictions, p) <=> emitting # {}
                /\ ObjHas(predictions, p) =>
                       \E i \in emitting : ObjGet(predictions, p) = LineValue(models[i])

PredictionGate_Witness ==
    /\ phase = "predicted"
    /\ Len(models) = 2
    /\ models[1].outputParameter = "rPosY"
    /\ models[1].rSquared = QualityGate
    /\ "coefficients" \in DOMAIN models[1]
    /\ Len(models[1].coefficients) = 2
    /\ models[1].inputDimension = "position.x"
    /\ models[2].outputParameter = "rPosX"
    /\ models[2].inputDimension = "position.y"
    /\ ~ObjHas(predictions, "rPosY")
    /\ ObjHas(predictions, "rPosX")
    /\ ObjGet(predictions, "rPosX") = Num(5)

\* The models whose rSquared is a finite number.
FiniteModels == SelectSeq(models, LAMBDA m : IsFiniteNum(m.rSquared))

-----------------------------------------------------------------------------
(* SpecRank: the matrix of a drawn file list is built, then ranked. *)

InitRank ==
    /\ sweepFiles \in RankInputs
    /\ phase = "load"
    /\ allRuns = <<>>
    /\ matrix = EmptyObj
    /\ xValues = <<>>
    /\ yValues = <<>>
    /\ corr = NoResult
    /\ regr = NoResult
    /\ gpsFile = NoResult
    /\ models = <<>>
    /\ predictions = EmptyObj
    /\ NoRanking
    /\ NoApp
    /\ NoParsing

FindStrongest ==
    /\ phase = "built"
    /\ phase' = "strongest"
    /\ \E t \in Thresholds :
         /\ threshold' = t
         /\ strongest' = findStrongestCorrelations(matrix, t)
    /\ UNCHANGED <<topN, topModels, matrixVars, statVars, predictVars, parseVars, appVars>>

GetTopModels ==
    /\ phase = "built"
    /\ phase' = "top"
    /\ \E n \in TopNs :
         /\ topN' = n
         /\ topModels' = getTopPredictionModels(matrix, n)
    /\ UNCHANGED <<threshold, strongest, matrixVars, statVars, predictVars, parseVars, appVars>>

NextRank == BuildMatrix \/ FindStrongest \/ GetTopModels

SpecRank == InitRank /\ [][NextRank]_vars

-----------------------------------------------------------------------------
(* SpecParse: the two FileParser helpers applied to drawn raw objects. *)

InitParse ==
    /\ \/ phase = "params" /\ rawInput \in RawParamObjects
       \/ phase = "gps" /\ rawInput \in RawGpsErrors
    /\ parsed = EmptyObj
    /\ sweepFiles = <<>>
    /\ allRuns = <<>>
    /\ matrix = EmptyObj
    /\ xValues = <<>>
    /\ yValues = <<>>
    /\ corr = NoResult
    /\ regr = NoResult
    /\ gpsFile = NoResult
    /\ models = <<>>
    /\ predictions = EmptyObj
    /\ NoRanking
    /\ NoApp

CallExtractFinalParameters ==
    /\ phase = "params"
    /\ phase' = "paramsDone"
    /\ parsed' = extractFinalParameters(rawInput)
    /\ UNCHANGED <<rawInput, statVars, matrixVars, predictVars, rankVars, appVars>>

CallExtractGPSErrorDimensions ==
    /\ phase = "gps"
    /\ phase' = "gpsDone"
    /\ parsed' = extractGPSErrorDimensions(rawInput)
    /\ UNCHANGED <<rawInput, statVars, matrixVars, predictVars, rankVars, appVars>>

NextParse == CallExtractFinalParameters \/ CallExtractGPSErrorDimensions

SpecParse == InitParse /\ [][NextParse]_vars

-----------------------------------------------------------------------------
(* Properties of the ranking functions, under SpecRank. *)

\* C17: when no file holds a run or a section (no file at all, files of other
\* types, sweep files with empty lists) buildCorrelationMatrix returns an
\* empty matrix, and findStrongestCorrelations and getTopPredictionModels
\* return empty sequences for it.
EmptyAggregationGivesEmptyResults ==
    (phase \in {"built", "strongest", "top"}
     /\ \A i \in 1..Len(sweepFiles) : ObsInFile(sweepFiles[i]) = 0)
    => /\ matrix.keys = <<>>
       /\ DOMAIN matrix.val = {}
       /\ phase = "strongest" => strongest = <<>>
       /\ phase = "top" => topModels = <<>>

EmptyAggregationGivesEmptyResults_Witness ==
    /\ phase = "top"
    /\ Len(sweepFiles) = 2
    /\ sweepFiles[1].type = "gps-error"
    /\ sweepFiles[2].type = "section-sweep"
    /\ topN = Undefined
    /\ matrix.keys = <<>>
    /\ topModels = <<>>

\* The threshold findStrongestCorrelations was called with.
ThresholdUsed == IF threshold = Undefined THEN [n |-> 1, d |-> 2] ELSE threshold

\* |c| >= t, |a| >= |b| and |a| = |b| for finite coefficients and t >= 0
AtLeast(c, t) == c.n * t.d * t.d >= t.n * t.n * c.d
NotWeaker(a, b) == a.n * b.d >= b.n * a.d
SameStrength(a, b) == a.n * b.d = b.n * a.d

StrongPairs == {pr \in StoredPairs : AtLeast(Stored(pr[1], pr[2]).coefficient, ThresholdUsed)}

\* C18: findStrongestCorrelations returns exactly the stored results with
\* |coefficient| >= threshold (the boundary included), each once and no
\* other; the threshold left out is 0.5.
StrongestAreThoseAtOrAboveThreshold ==
    phase = "strongest" =>
        /\ Len(strongest) = Cardinality(StrongPairs)
        /\ \A i \in 1..Len(strongest) :
               /\ <<strongest[i].xLabel, strongest[i].yLabel>> \in StrongPairs
               /\ strongest[i] = Stored(strongest[i].xLabel, strongest[i].yLabel)
        /\ \A pr \in StrongPairs :
               Cardinality({i \in 1..Len(strongest) :
                              strongest[i].xLabel = pr[1] /\ strongest[i].yLabel = pr[2]}) = 1

StrongestAreThoseAtOrAboveThreshold_Witness ==
    /\ phase = "strongest"
    /\ threshold = Undefined
    /\ Cardinality(StoredPairs) = 36
    /\ Len(strongest) = 2
    /\ strongest[1].coefficient = [s |-> 1, n |-> 1, d |-> 4]
    /\ strongest[2].coefficient = [s |-> -1, n |-> 1, d |-> 4]

\* The place of a stored result in the matrix: the index of its row, then the
\* index of its key in that row.
IndexIn(keys, key) == CHOOSE i \in 1..Len(keys) : keys[i] = key

EncounteredBefore(a, b) ==
    LET ra == IndexIn(matrix.keys, a.xLabel)
        rb == IndexIn(matrix.keys, b.xLabel)
    IN  \/ ra < rb
        \/ /\ ra = rb
           /\ IndexIn(matrix.val[a.xLabel].keys, a.yLabel)
                < IndexIn(matrix.val[b.xLabel].keys, b.yLabel)

\* C19: the sequence returned by findStrongestCorrelations is ordered by
\* non-increasing |coefficient|, and results of equal |coefficient| (a
\* positive and a negative one included) keep their encounter order in the
\* matrix.
StrongestSortedStably ==
    phase = "strongest" =>
        \A i, j \in 1..Len(strongest) :
            i < j =>
                /\ NotWeaker(strongest[i].coefficient, strongest[j].coefficient)
                /\ SameStrength(strongest[i].coefficient, strongest[j].coefficient)
                       => EncounteredBefore(strongest[i], strongest[j])

StrongestSortedStably_Witness ==
    /\ phase = "strongest"
    /\ threshold = Zero
    /\ Len(strongest) = 36
    /\ strongest[1].yLabel = "rPosX"
    /\ strongest[1].coefficient = [s |-> -1, n |-> 1, d |-> 1]
    /\ strongest[2].yLabel = "rPosY"
    /\ strongest[2].coefficient = [s |-> 1, n |-> 1, d |-> 1]
    /\ strongest[3].xLabel = "position.y"
    /\ strongest[3].coefficient = SurdZero

\* The stored result a model was built from.
ResultOf(model) == Stored(model.inputDimension, model.outputParameter)

TopPairs == {<<topModels[i].inputDimension, topModels[i].outputParameter>> :
               i \in 1..Len(topModels)}

\* C20: getTopPredictionModels(matrix, topN) returns min(topN, P) models for
\* the P stored pairs, one per distinct pair, of the pairs with the largest
\* |coefficient|, ordered by non-increasing |coefficient|; no threshold is
\* applied, a pair with coefficient 0 is eligible.
TopModelsAreTheStrongestPairs ==
    (phase = "top" /\ topN # Undefined) =>
        LET P == Cardinality(StoredPairs)
        IN  /\ Len(topModels) = IF topN.n < P THEN topN.n ELSE P
            /\ TopPairs \subseteq StoredPairs
            /\ Cardinality(TopPairs) = Len(topModels)
            /\ \A i, j \in 1..Len(topModels) :
                   i < j => NotWeaker(ResultOf(topModels[i]).coefficient,
                                      ResultOf(topModels[j]).coefficient)
            /\ \A pr \in StoredPairs \ TopPairs : \A i \in 1..Len(topModels) :
                   NotWeaker(ResultOf(topModels[i]).coefficient,
                             Stored(pr[1], pr[2]).coefficient)

TopModelsAreTheStrongestPairs_Witness ==
    /\ phase = "top"
    /\ topN = Num(2)
    /\ Cardinality(StoredPairs) = 18
    /\ Len(topModels) = 2
    /\ ResultOf(topModels[1]).coefficient = SurdOne
    /\ ResultOf(topModels[2]).coefficient = SurdZero

-----------------------------------------------------------------------------
(* Properties of the FileParser helpers, under SpecParse. *)

FamilySet == {"rPos", "rVelocity", "qPos", "qVelocity", "qAcceleration"}

\* C13: when the input holds both a per-axis value (FX or FZ) and the legacy
\* FXZ of the same family, the extracted FX and FZ are the per-axis values.
\* The code contradicts it: the legacy value is assigned last and wins.
PerAxisTakesPrecedence ==
    phase = "paramsDone" =>
        \A fam \in FamilySet : \A a \in {"X", "Z"} :
            ((fam \o a) \in DOMAIN rawInput /\ (fam \o "XZ") \in DOMAIN rawInput)
            => /\ (fam \o a) \in DOMAIN parsed.val
               /\ parsed.val[fam \o a] = rawInput[fam \o a]

\* C14: an input that holds only the legacy key FXZ = v of a family yields
\* FX = v and FZ = v, and no FXZ key is ever a key of the output.
LegacyExpansion ==
    phase = "paramsDone" =>
        \A fam \in FamilySet :
            /\ (DOMAIN rawInput = {fam \o "XZ"}) =>
                   /\ (fam \o "X") \in DOMAIN parsed.val
                   /\ (fam \o "Z") \in DOMAIN parsed.val
                   /\ parsed.val[fam \o "X"] = rawInput[fam \o "XZ"]
                   /\ parsed.val[fam \o "Z"] = rawInput[fam \o "XZ"]
            /\ (fam \o "XZ") \notin DOMAIN parsed.val
            /\ \A i \in 1..Len(parsed.keys) : parsed.keys[i] # fam \o "XZ"

LegacyExpansion_Witness ==
    /\ phase = "paramsDone"
    /\ DOMAIN rawInput = {"qAccelerationXZ"}
    /\ rawInput["qAccelerationXZ"] = Num(2)
    /\ parsed.keys = <<"qAccelerationX", "qAccelerationZ">>
    /\ parsed.val["qAccelerationX"] = Num(2)
    /\ parsed.val["qAccelerationZ"] = Num(2)

GroupSet == {"position", "velocity", "acceleration"}
AxisSet == {"x", "y", "z"}

\* obj.group.axis is not there: the group is missing or null, or the axis is.
AxisAbsent(obj, group, axis) ==
    \/ group \notin DOMAIN obj
    \/ obj[group] = Null
    \/ axis \notin DOMAIN obj[group]
    \/ obj[group][axis] = Null

FuzzAbsent(group, axis) ==
    \/ "fuzziness" \notin DOMAIN rawInput
    \/ rawInput["fuzziness"] = Null
    \/ AxisAbsent(rawInput["fuzziness"], group, axis)

\* C15: extractGPSErrorDimensions returns exactly the 18 keys group.axis and
\* fuzziness.group.axis, and every key whose nested field is absent (missing
\* or null group, missing or null fuzziness, missing or null axis) is 0.
EighteenDimensionsDefaulted ==
    phase = "gpsDone" =>
        /\ Len(parsed.keys) = 18
        /\ KeySet(parsed.keys) = DOMAIN parsed.val
        /\ DOMAIN parsed.val =
               {g \o "." \o a : g \in GroupSet, a \in AxisSet}
               \cup {"fuzziness." \o g \o "." \o a : g \in GroupSet, a \in AxisSet}
        /\ \A g \in GroupSet, a \in AxisSet :
               /\ AxisAbsent(rawInput, g, a) => parsed.val[g \o "." \o a] = Zero
               /\ ~AxisAbsent(rawInput, g, a) =>
                      parsed.val[g \o "." \o a] = rawInput[g][a]
               /\ FuzzAbsent(g, a) => parsed.val["fuzziness." \o g \o "." \o a] = Zero
               /\ ~FuzzAbsent(g, a) =>
                      parsed.val["fuzziness." \o g \o "." \o a] =
                          rawInput["fuzziness"][g][a]

EighteenDimensionsDefaulted_Witness ==
    /\ phase = "gpsDone"
    /\ "position" \in DOMAIN rawInput
    /\ rawInput["position"] = [x |-> Null, y |-> Num(2)]
    /\ "velocity" \notin DOMAIN rawInput
    /\ "fuzziness" \in DOMAIN rawInput
    /\ rawInput["fuzziness"] = [position |-> Null]
    /\ parsed.val["position.x"] = Zero
    /\ parsed.val["position.y"] = Num(2)
    /\ parsed.val["position.z"] = Zero
    /\ parsed.val["velocity.y"] = Zero
    /\ parsed.val["fuzziness.position.x"] = Zero

-----------------------------------------------------------------------------
(* Order of the models handed to predictParameters, under SpecPredict. *)

\* The positions of the models that write the output parameter p.
Emitting(p) ==
    {i \in 1..Len(models) : models[i].outputParameter = p /\ Qualifies(models[i])}

LastOf(S) == CHOOSE i \in S : \A j \in S : j <= i

\* C21: when several models target the same output parameter and pass the
\* gate, the result holds the value of the last of them in sequence order.
LastModelWins ==
    phase = "predicted" =>
        \A p \in {"rPosX", "rPosY"} :
            Emitting(p) # {} =>
                ObjGet(predictions, p) = LineValue(models[LastOf(Emitting(p))])

\* Two passing models for rPosX with different values: the second one's value
\* is the result, and the sequence in the other order gives the first one's.
LastModelWins_Witness ==
    /\ phase = "predicted"
    /\ Emitting("rPosX") = {1, 2}
    /\ LineValue(models[1]) # LineValue(models[2])
    /\ ObjGet(predictions, "rPosX") = LineValue(models[2])
    /\ ObjGet(predictParameters(gpsFile, <<models[2], models[1]>>), "rPosX")
           = LineValue(models[1])

-----------------------------------------------------------------------------
(* Models whose input is not in the GPS-error data, under SpecPredict. *)

\* The name is one of the 18 dimensions.
IsDimensionName(d) == \E i \in 1..Len(DimensionNames) : DimensionNames[i] = d

\* The name is one of the 18 dimensions and the field it names is missing
\* from the GPS-error data of gpsFile.
FieldMissing(d) ==
    \/ \E g \in GroupSet, a \in AxisSet :
          /\ d = g \o "." \o a
          /\ AxisAbsent(gpsFile.gpsError, g, a)
    \/ \E g \in GroupSet, a \in AxisSet :
          /\ d = "fuzziness." \o g \o "." \o a
          /\ \/ "fuzziness" \notin DOMAIN gpsFile.gpsError
             \/ gpsFile.gpsError["fuzziness"] = Null
             \/ AxisAbsent(gpsFile.gpsError["fuzziness"], g, a)

\* C22 as stated: a model whose inputDimension is no dimension name, or names
\* a field missing from the GPS-error data, produces no entry; the result is
\* the one of the other models alone.
MissingFieldModelsSkipped ==
    phase = "predicted" =>
        predictions =
            predictParameters(gpsFile,
                SelectSeq(models, LAMBDA m : /\ IsDimensionName(m.inputDimension)
                                             /\ ~FieldMissing(m.inputDimension)))

\* C22, amended: a model whose inputDimension is none of the 18 dimension
\* names produces no entry; a model over one of the 18 dimensions whose field
\* is missing from the GPS-error data is not skipped: the input reads as 0
\* and, when it is the last model writing its output parameter, the entry is
\* coefficients[0] + coefficients[1] * 0.
UnknownNameSkippedMissingFieldIsZero ==
    phase = "predicted" =>
        /\ predictions =
               predictParameters(gpsFile,
                   SelectSeq(models, LAMBDA m : IsDimensionName(m.inputDimension)))
        /\ \A i \in 1..Len(models) :
               ~IsDimensionName(models[i].inputDimension) =>
                   \/ ~ObjHas(predictions, models[i].outputParameter)
                   \/ Emitting(models[i].outputParameter) # {}
        /\ \A p \in {"rPosX", "rPosY"} :
               /\ Emitting(p) # {}
               /\ FieldMissing(models[LastOf(Emitting(p))].inputDimension)
               => /\ ObjHas(predictions, p)
                  /\ ObjGet(predictions, p) =
                         JAdd(models[LastOf(Emitting(p))].coefficients[1],
                              JMul(models[LastOf(Emitting(p))].coefficients[2], Zero))

\* position.x is missing from the data: the model over "altitude" writes
\* nothing, the model over position.x writes its intercept.
UnknownNameSkippedMissingFieldIsZero_Witness ==
    /\ phase = "predicted"
    /\ AxisAbsent(gpsFile.gpsError, "position", "x")
    /\ Len(models) = 2
    /\ models[1].inputDimension = "altitude"
    /\ models[1].outputParameter = "rPosY"
    /\ "coefficients" \in DOMAIN models[1]
    /\ Len(models[1].coefficients) = 2
    /\ models[1].rSquared = Rat(1, 2)
    /\ models[2].inputDimension = "position.x"
    /\ models[2].outputParameter = "rPosX"
    /\ Qualifies(models[2])
    /\ ~ObjHas(predictions, "rPosY")
    /\ ObjGet(predictions, "rPosX") = One

-----------------------------------------------------------------------------
(* SpecPipeline: the matrix of a section sweep is built and ranked, a model *)
(* is built from one of its results and applied to a GPS-error file.        *)

\* Raw finalParameters objects of the sections: no tuning parameter at all,
\* rPosX alone, or rPosX and rPosY.
PipelineParams ==
    {<<>>, "rPosX" :> Num(2), ("rPosX" :> Num(4)) @@ ("rPosY" :> One)}

\* The k-th section listed: position.x is 1 or 2.
PipelineSections(k) ==
    {[section |-> [name |-> "s" \o ToString(k)],
      gpsErrorProfile |-> [position |-> [x |-> v]],
      bestResult |-> [finalParameters |-> p]] :
        v \in {One, Num(2)}, p \in PipelineParams}

RECURSIVE PipelineLists(_)
PipelineLists(k) ==
    IF k = 0 THEN {<<>>}
    ELSE {Append(l, sec) : l \in PipelineLists(k - 1), sec \in PipelineSections(k)}

PipelineInputs ==
    {<<[name |-> FileName(1), type |-> "section-sweep", data |-> [sections |-> l]]>> :
        l \in UNION {PipelineLists(k) : k \in 1..MaxSections}}

\* The GPS-error files a model is applied to: position.x is 3 or 0.
PipelineGpsFiles == {[gpsError |-> [position |-> [x |-> v]]] : v \in {Num(3), Zero}}

\* The rows a model is built from.
PipelineDimensions == {"position.x", "velocity.z"}

InitPipeline ==
    /\ sweepFiles \in PipelineInputs
    /\ phase = "load"
    /\ allRuns = <<>>
    /\ matrix = EmptyObj
    /\ xValues = <<>>
    /\ yValues = <<>>
    /\ corr = NoResult
    /\ regr = NoResult
    /\ gpsFile = NoResult
    /\ models = <<>>
    /\ predictions = EmptyObj
    /\ NoRanking
    /\ NoApp
    /\ NoParsing

\* findStrongestCorrelations(matrix) and findStrongestCorrelations(matrix, 0.3)
PipelineStrongest ==
    /\ phase = "built"
    /\ phase' = "strongest"
    /\ \E t \in {Undefined, QualityGate} :
         /\ threshold' = t
         /\ strongest' = findStrongestCorrelations(matrix, t)
    /\ UNCHANGED <<topN, topModels, matrixVars, statVars, predictVars, parseVars, appVars>>

\* getTopPredictionModels(matrix, 15)
PipelineTopModels ==
    /\ phase = "strongest"
    /\ phase' = "top"
    /\ topN' = Num(15)
    /\ topModels' = getTopPredictionModels(matrix, Num(15))
    /\ UNCHANGED <<threshold, strongest, matrixVars, statVars, predictVars, parseVars, appVars>>

\* buildPredictionModel of one result of the matrix
PipelineModel ==
    /\ phase = "top"
    /\ phase' = "modelled"
    /\ \E errorDim \in PipelineDimensions :
         /\ ObjHas(matrix, errorDim)
         /\ \E i \in 1..Len(ObjGet(matrix, errorDim).keys) :
              models' = <<buildPredictionModel(
                            ObjGet(ObjGet(matrix, errorDim),
                                   ObjGet(matrix, errorDim).keys[i]))>>
    /\ UNCHANGED <<gpsFile, predictions, matrixVars, statVars, rankVars, parseVars, appVars>>

\* Mutant: the models are taken off the array handed over while they are
\* applied (models.shift()), which leaves the caller's array empty.
PipelinePredict_ConsumesModels ==
    /\ phase \in {"modelled", "predicted"}
    /\ phase' = "predicted"
    /\ \E g \in PipelineGpsFiles :
         /\ gpsFile' = g
         /\ predictions' = predictParameters(g, models)
    /\ models' = <<>>
    /\ UNCHANGED <<matrixVars, statVars, rankVars, parseVars, appVars>>

\* predictParameters(gpsFile, models), called any number of times
PipelinePredict ==
    /\ phase \in {"modelled", "predicted"}
    /\ phase' = "predicted"
    /\ \E g \in PipelineGpsFiles :
         /\ gpsFile' = g
         /\ predictions' = predictParameters(g, models)
    /\ UNCHANGED <<models, matrixVars, statVars, rankVars, parseVars, appVars>>

NextPipeline ==
    BuildMatrix \/ PipelineStrongest \/ PipelineTopModels \/ PipelineModel
    \/ PipelinePredict

SpecPipeline == InitPipeline /\ [][NextPipeline]_vars

-----------------------------------------------------------------------------
(* Properties of the whole pipeline, under SpecPipeline. *)

\* The model built, its row and its column.
TheModel == models[1]

\* The (x, y) pairs the sections hold for the model's row and column: every
\* section whose finalParameters has the parameter, x being 0 for a dimension
\* the profiles do not hold.
PairsOfModel ==
    LET secs == SelectSeq(sweepFiles[1].data.sections,
                    LAMBDA sec : TheModel.outputParameter
                                    \in DOMAIN sec.bestResult.finalParameters)
    IN  [i \in 1..Len(secs) |->
            [x |-> IF TheModel.inputDimension = "position.x"
                   THEN secs[i].gpsErrorProfile.position.x ELSE Zero,
             y |-> secs[i].bestResult.finalParameters[TheModel.outputParameter]]]

\* The line through the first pair and the first pair with another x.
PairsSlope ==
    LET j == CHOOSE j \in DOMAIN PairsOfModel : PairsOfModel[j].x # PairsOfModel[1].x
    IN  JDiv(JSub(PairsOfModel[j].y, PairsOfModel[1].y),
             JSub(PairsOfModel[j].x, PairsOfModel[1].x))

PairsIntercept == JSub(PairsOfModel[1].y, JMul(PairsSlope, PairsOfModel[1].x))

\* At least two different x, every pair on the line, and the slope is not 0.
PairsOnSlopedLine ==
    /\ \E j \in DOMAIN PairsOfModel : PairsOfModel[j].x # PairsOfModel[1].x
    /\ \A i \in DOMAIN PairsOfModel :
           PairsOfModel[i].y = JAdd(PairsIntercept, JMul(PairsSlope, PairsOfModel[i].x))
    /\ PairsSlope # Zero

\* C23: when the (dimension, parameter) pairs of the observations lie exactly
\* on a line y = a + b*x with b # 0, the coefficient stored in the matrix is 1
\* for b > 0 and -1 for b < 0, the model built from that result has
\* coefficients [a, b] and rSquared 1, and predictParameters with that model
\* gives a + b * input for the parameter.
PipelineRecoversLine ==
    (phase \in {"modelled", "predicted"} /\ PairsOnSlopedLine) =>
        /\ ObjGet(ObjGet(matrix, TheModel.inputDimension),
                  TheModel.outputParameter).coefficient
               = [s |-> Sign(PairsSlope.n), n |-> 1, d |-> 1]
        /\ TheModel.coefficients = <<PairsIntercept, PairsSlope>>
        /\ TheModel.rSquared = One
        /\ phase = "predicted" =>
               ObjGet(predictions, TheModel.outputParameter) =
                   JAdd(PairsIntercept,
                        JMul(PairsSlope, gpsFile.gpsError.position.x))

\* The pairs (1, 2) and (2, 4): coefficient 1, model [0, 2] with rSquared 1,
\* and 6 is predicted for the input 3.
PipelineRecoversLine_Witness ==
    /\ phase = "predicted"
    /\ PairsOfModel = <<[x |-> One, y |-> Num(2)], [x |-> Num(2), y |-> Num(4)]>>
    /\ ObjGet(ObjGet(matrix, "position.x"), "rPosX").coefficient = SurdOne
    /\ TheModel.coefficients = <<Zero, Num(2)>>
    /\ TheModel.rSquared = One
    /\ gpsFile.gpsError.position.x = Num(3)
    /\ ObjGet(predictions, "rPosX") = Num(6)

\* The results of the matrix, of every row.
MatrixResults(m) ==
    LET all == AllResults(m) IN {all[i] : i \in 1..Len(all)}

-----------------------------------------------------------------------------
(* SpecShapes: buildCorrelationMatrix and predictParameters applied to     *)
(* files in which fields are missing.                                      *)

MaxFiles == 2

\* What a read of a property of undefined raises
TypeError == [thrown |-> "TypeError"]

\* extractFinalParameters(result.finalParams) reads params.rPosX
ResultThrows(result) == "finalParams" \notin DOMAIN result

\* extractGPSErrorDimensions(section.gpsErrorProfile) reads gpsError.position,
\* section.bestResult.finalParameters and params.rPosX are read next, and
\* section.section.name for the label.
SectionThrows(section) ==
    \/ "gpsErrorProfile" \notin DOMAIN section
    \/ "bestResult" \notin DOMAIN section
    \/ "finalParameters" \notin DOMAIN section.bestResult
    \/ "section" \notin DOMAIN section

\* The body of sweepFiles.forEach throws for the file.
FileThrows(file) ==
    IF file.type = "sweep-summary"
    THEN \/ "gpsError" \notin DOMAIN file.data
         \/ "allResults" \notin DOMAIN file.data
         \/ \E i \in 1..Len(file.data.allResults) :
               ResultThrows(file.data.allResults[i])
    ELSE IF file.type = "section-sweep"
    THEN \/ "sections" \notin DOMAIN file.data
         \/ \E i \in 1..Len(file.data.sections) :
               SectionThrows(file.data.sections[i])
    ELSE FALSE

\* buildCorrelationMatrix: the matrix returned, or the exception that leaves it
buildCorrelationMatrixOrThrow(files) ==
    IF \E i \in 1..Len(files) : FileThrows(files[i])
    THEN TypeError
    ELSE buildCorrelationMatrix(files)

\* predictParameters: extractGPSErrorDimensions(gpsError.gpsError) comes first
predictParametersOrThrow(gpsError, ms) ==
    IF "gpsError" \notin DOMAIN gpsError
    THEN TypeError
    ELSE predictParameters(gpsError, ms)

\* Files tagged sweep-summary: gpsError, allResults and the finalParams of the
\* run may each be missing.
ShapeSweepData ==
    {g @@ a : g \in {<<>>, "gpsError" :> [position |-> [x |-> One]]},
              a \in {<<>>, "allResults" :> <<>>,
                     "allResults" :> <<[runIndex |-> 0]>>,
                     "allResults" :> <<[runIndex |-> 0,
                                        finalParams |-> [rPosX |-> One]]>>}}

\* Sections: gpsErrorProfile, bestResult, its finalParameters and the section
\* descriptor may each be missing.
ShapeSections ==
    {g @@ b @@ s :
        g \in {<<>>, "gpsErrorProfile" :> [position |-> [x |-> One]]},
        b \in {<<>>, "bestResult" :> [score |-> One],
               "bestResult" :> [finalParameters |-> [rPosX |-> One]]},
        s \in {<<>>, "section" :> [name |-> "s1"]}}

\* Files tagged section-sweep: sections may be missing.
ShapeSectionData ==
    {<<>>, "sections" :> <<>>} \cup {"sections" :> <<sec>> : sec \in ShapeSections}

ShapeFiles(nm) ==
    {[name |-> nm, type |-> "sweep-summary", data |-> d] : d \in ShapeSweepData}
    \cup {[name |-> nm, type |-> "section-sweep", data |-> d] : d \in ShapeSectionData}

RECURSIVE ShapeInputs(_)
ShapeInputs(k) ==
    IF k = 0 THEN {<<>>}
    ELSE {Append(l, f) : l \in ShapeInputs(k - 1), f \in ShapeFiles(FileName(k))}

\* The data of files handed to predictParameters: gpsError may be missing.
ShapeGpsData == {<<>>, "gpsError" :> [position |-> [x |-> One]]}

InitShapes ==
    /\ sweepFiles \in UNION {ShapeInputs(k) : k \in 0..MaxFiles}
    /\ phase = "load"
    /\ allRuns = <<>>
    /\ matrix = EmptyObj
    /\ xValues = <<>>
    /\ yValues = <<>>
    /\ corr = NoResult
    /\ regr = NoResult
    /\ gpsFile = NoResult
    /\ models = <<>>
    /\ predictions = EmptyObj
    /\ NoRanking
    /\ NoApp
    /\ NoParsing

\* buildCorrelationMatrix(sweepFiles), then getTopPredictionModels(matrix, 15)
\* unless the exception ended the caller
ShapeBuild ==
    /\ phase = "load"
    /\ matrix' = buildCorrelationMatrixOrThrow(sweepFiles)
    /\ IF matrix' = TypeError
       THEN phase' = "threw" /\ models' = models
       ELSE phase' = "built" /\ models' = getTopPredictionModels(matrix', Num(15))
    /\ UNCHANGED <<sweepFiles, allRuns, gpsFile, predictions, statVars, rankVars, parseVars, appVars>>

\* predictParameters(data, models)
ShapePredict ==
    /\ phase = "built"
    /\ \E g \in ShapeGpsData :
         /\ gpsFile' = g
         /\ predictions' = predictParametersOrThrow(g, models)
         /\ phase' = IF predictions' = TypeError THEN "threw" ELSE "predicted"
    /\ UNCHANGED <<models, matrixVars, statVars, rankVars, parseVars, appVars>>

NextShapes == ShapeBuild \/ ShapePredict

SpecShapes == InitShapes /\ [][NextShapes]_vars

\* C25: no exception leaves buildCorrelationMatrix or predictParameters,
\* whatever fields the files lack.  The code contradicts it: a missing
\* gpsError, allResults, finalParams, sections, gpsErrorProfile or bestResult
\* is read through, which throws a TypeError.
NoExceptionPropagates == matrix # TypeError /\ predictions # TypeError

-----------------------------------------------------------------------------
(* The parameters of the matrix, under SpecPipeline. *)

\* The raw finalParameters of the k-th section of the file.
ParamsOfSection(k) == sweepFiles[1].data.sections[k].bestResult.finalParameters

\* C26: the parameters of the matrix are those of the first observation
\* only: a parameter the first observation lacks is a key of no row, also
\* when every later observation has it, and when the first observation has no
\* parameter at all every one of the 18 rows is empty.
FirstObservationFixesParameters ==
    phase # "load" =>
        /\ Len(matrix.keys) = 18
        /\ \A errorDim \in KeySet(matrix.keys) :
               /\ \A param \in {"rPosX", "rPosY"} :
                      param \notin DOMAIN ParamsOfSection(1) =>
                          ~ObjHas(ObjGet(matrix, errorDim), param)
               /\ DOMAIN ParamsOfSection(1) = {} =>
                      ObjGet(matrix, errorDim) = EmptyObj

\* The first section has rPosX alone, the later ones have rPosY too: no row
\* has the key rPosY.
FirstObservationFixesParameters_Witness ==
    /\ phase = "built"
    /\ Len(sweepFiles[1].data.sections) = MaxSections
    /\ DOMAIN ParamsOfSection(1) = {"rPosX"}
    /\ \A k \in 2..MaxSections : "rPosY" \in DOMAIN ParamsOfSection(k)
    /\ \A errorDim \in KeySet(matrix.keys) :
           ObjKeys(ObjGet(matrix, errorDim)) = <<"rPosX">>

-----------------------------------------------------------------------------
(* Observations of one sweep summary, under Spec. *)

\* The files that contribute observations.
Contributing == {k \in 1..Len(sweepFiles) : ObsInFile(sweepFiles[k]) > 0}

\* The raw input vectors of the observations: the gpsError of a sweep summary
\* with runs, the gpsErrorProfile of every section.
InputVectors ==
    {sweepFiles[k].data.gpsError :
        k \in {j \in Contributing : sweepFiles[j].type = "sweep-summary"}}
    \cup UNION {{sweepFiles[k].data.sections[i].gpsErrorProfile :
                    i \in 1..Len(sweepFiles[k].data.sections)} :
                 k \in {j \in Contributing : sweepFiles[j].type = "section-sweep"}}

-----------------------------------------------------------------------------
(* The App (main.ts) and FileParser.parseFile (parser.ts).                  *)
(*                                                                          *)
(* A File of the browser is [base, ext, content]: its name is base.ext, and *)
(* content is what file.text() delivers, given as [json |-> the value       *)
(* JSON.parse makes of the text] or as [lines |-> the lines of the text,    *)
(* each the list of its trimmed cells].  The names drawn hold no timestamp, *)
(* so the timestamp of every LoadedFile is undefined and is left out.       *)

MaxBatches == 2

\* What parseFile throws
ParseError == [thrown |-> "Error"]

NameOf(file) == file.base \o "." \o file.ext

\* toLowerCase() of the extensions drawn
LowerCase(ext) ==
    IF ext = "JSON" THEN "json" ELSE IF ext = "CSV" THEN "csv" ELSE ext

\* typeof value === 'object', for a value that is a number, an object or an array
IsObjectType(value) == DOMAIN value # {"n", "d"}

\* Array.isArray(json.sections) holds for every sections value drawn.
isSectionSweep(json) ==
    /\ "summary" \in DOMAIN json
    /\ "sections" \in DOMAIN json
    /\ Len(json.sections) > 0
    /\ "gpsErrorProfile" \in DOMAIN json.sections[1]
    /\ "bestResult" \in DOMAIN json.sections[1]

isGPSError(json) ==
    /\ "gpsError" \in DOMAIN json
    /\ "position" \in DOMAIN json.gpsError
    /\ "velocity" \in DOMAIN json.gpsError
    /\ "acceleration" \in DOMAIN json.gpsError
    /\ "allResults" \notin DOMAIN json

isSweepSummary(json) ==
    /\ "sweepName" \in DOMAIN json
    /\ "allResults" \in DOMAIN json
    /\ "bestResult" \in DOMAIN json

isRunMetadata(json) ==
    /\ "scoreBreakdown" \in DOMAIN json
    /\ "stageCount" \in DOMAIN json
    /\ "finalParams" \in DOMAIN json

isOptimizerMetadata(json) ==
    /\ "finalParams" \in DOMAIN json
    /\ IsObjectType(json.finalParams)
    /\ "scoreBreakdown" \notin DOMAIN json

isParameterExport(json) ==
    /\ "params" \in DOMAIN json
    /\ IsObjectType(json.params)

\* parseJSON once file.text() has delivered: the LoadedFile, or ParseError
parseJSON(file) ==
    LET json == file.content.json
        tagged(type) == [name |-> NameOf(file), type |-> type, data |-> json]
    IN  IF isSectionSweep(json) THEN tagged("section-sweep")
        ELSE IF isGPSError(json) THEN tagged("gps-error")
        ELSE IF isSweepSummary(json) THEN tagged("sweep-summary")
        ELSE IF isRunMetadata(json) THEN tagged("run-metadata")
        ELSE IF isOptimizerMetadata(json) THEN tagged("optimizer")
        ELSE IF isParameterExport(json) THEN tagged("params")
        ELSE ParseError

\* parseFloat of the cells drawn
ParseFloat(cell) ==
    IF cell = "1" THEN One ELSE IF cell = "2" THEN Num(2) ELSE NaN

\* One data row: a cell that is a number as a number, another cell that is not
\* empty as it is (undefined where the line has fewer cells than the header);
\* of two columns with one header the later one stays.
CsvRow(headers, values) ==
    LET kept == {idx \in 1..Len(headers) :
                    idx > Len(values) \/ values[idx] # ""}
        column(header) == CHOOSE idx \in kept :
                             /\ headers[idx] = header
                             /\ \A other \in kept :
                                    headers[other] = header => other <= idx
    IN  [header \in {headers[idx] : idx \in kept} |->
            IF column(header) > Len(values) THEN Undefined
            ELSE IF IsNaNNum(ParseFloat(values[column(header)]))
                 THEN values[column(header)]
                 ELSE ParseFloat(values[column(header)])]

\* parseCSV once file.text() has delivered: the LoadedFile, or ParseError
parseCSV(file) ==
    LET lines == file.content.lines
    IN  IF Len(lines) < 2 THEN ParseError
        ELSE [name |-> NameOf(file),
              type |-> "csv",
              data |-> [headers |-> lines[1],
                        rows |-> [i \in 1..(Len(lines) - 1) |->
                                     CsvRow(lines[1], lines[i + 1])]]]

\* parseFile reaches "await file.text()": the extension is json or csv.
NeedsText(file) == LowerCase(file.ext) \in {"json", "csv"}

parseFile(file) ==
    IF LowerCase(file.ext) = "json" THEN parseJSON(file)
    ELSE IF LowerCase(file.ext) = "csv" THEN parseCSV(file)
    ELSE ParseError

getGPSErrorFiles(files) == SelectSeq(files, LAMBDA f : f.type = "gps-error")

getSweepSummaries(files) ==
    SelectSeq(files, LAMBDA f : f.type = "sweep-summary" \/ f.type = "section-sweep")

\* this.updateUI() on the files given: the two cached fields are assigned only
\* when a sweep file is loaded, and the options of the predictionGpsFile select
\* are rewritten only when a GPS-error file and a model are there; otherwise
\* the prediction controls are hidden.
updateUI(files) ==
    LET sweepFilesNow == getSweepSummaries(files)
        gpsErrorFiles == getGPSErrorFiles(files)
    IN  \E newMatrix \in {IF Len(sweepFilesNow) > 0
                          THEN buildCorrelationMatrix(sweepFilesNow)
                          ELSE correlationMatrix} :
        \E newModels \in {IF Len(sweepFilesNow) > 0
                          THEN getTopPredictionModels(newMatrix, Num(15))
                          ELSE predictionModels} :
            /\ correlationMatrix' = newMatrix
            /\ predictionModels' = newModels
            /\ predictionControls' =
                   IF Len(gpsErrorFiles) > 0 /\ Len(newModels) > 0
                   THEN [display |-> "block", options |-> Len(gpsErrorFiles)]
                   ELSE [predictionControls EXCEPT !.display = "none"]

\* Mutant: no try/catch around the parse, the rejection of parseFile ends
\* handleFiles.
Resume_NoCatch(files, i) ==
    IF i > Len(files) THEN [pos |-> i, ui |-> 1]
    ELSE IF NeedsText(files[i]) THEN [pos |-> i, ui |-> 0]
    ELSE [pos |-> Len(files) + 1, ui |-> 0]

\* handleFiles running on from its i-th file, until it waits for the text of a
\* file (pos is that file) or has left the loop and called updateUI (ui is 1).
\* A file whose extension is unsupported is rejected at once: the catch block
\* alerts and the loop goes on in the same turn of the event loop.
RECURSIVE Resume(_, _)
Resume(files, i) ==
    IF i > Len(files) THEN [pos |-> i, ui |-> 1]
    ELSE IF NeedsText(files[i]) THEN [pos |-> i, ui |-> 0]
    ELSE Resume(files, i + 1)

\* The contents of the files dropped.
SectionSweepJson ==
    [summary |-> [sectionCount |-> Num(2)],
     sections |->
        <<[section |-> [name |-> "s1"],
           gpsErrorProfile |-> [position |-> [x |-> One]],
           bestResult |-> [finalParameters |-> [rPosX |-> Num(2)]]],
          [section |-> [name |-> "s2"],
           gpsErrorProfile |-> [position |-> [x |-> Num(2)]],
           bestResult |-> [finalParameters |-> [rPosX |-> Num(4)]]]>>]

SweepSummaryJson ==
    [sweepName |-> "sweep",
     gpsError |-> [position |-> [x |-> One], velocity |-> [x |-> Zero],
                   acceleration |-> [x |-> Zero]],
     allResults |-> <<[runIndex |-> 0, finalParams |-> [rPosX |-> One]],
                      [runIndex |-> 1, finalParams |-> [rPosX |-> Num(2)]]>>,
     bestResult |-> [runIndex |-> 1]]

GpsErrorJson ==
    [gpsError |-> [position |-> [x |-> Num(3)], velocity |-> [x |-> Zero],
                   acceleration |-> [x |-> Zero]]]

UnknownJson == [note |-> One]

\* The batches of the k-th drop or selection; k is part of every file name.
DropBatches(k) ==
    LET file(base, ext, content) ==
            [base |-> base \o ToString(k), ext |-> ext, content |-> content]
    IN  {<<file("sections", "json", [json |-> SectionSweepJson]),
           file("gps", "JSON", [json |-> GpsErrorJson])>>,
         <<file("notes", "txt", [lines |-> <<<<"hello">>>>]),
           file("odd", "json", [json |-> UnknownJson]),
           file("gps", "json", [json |-> GpsErrorJson])>>,
         <<file("short", "csv", [lines |-> <<<<"t", "v">>>>]),
           file("summary", "json", [json |-> SweepSummaryJson]),
           file("readme", "md", [lines |-> <<<<"hello">>>>])>>,
         <<file("log", "CSV", [lines |-> <<<<"t", "v">>, <<"1", "ok">>>>])>>,
         <<file("readme", "md", [lines |-> <<<<"hello">>>>])>>}

InitApp ==
    /\ NoApp
    /\ phase = "start"
    /\ sweepFiles = <<>>
    /\ allRuns = <<>>
    /\ matrix = EmptyObj
    /\ xValues = <<>>
    /\ yValues = <<>>
    /\ corr = NoResult
    /\ regr = NoResult
    /\ gpsFile = NoResult
    /\ models = <<>>
    /\ predictions = EmptyObj
    /\ NoRanking
    /\ NoParsing

\* The change and drop handlers: handleFiles(Array.from(files)) runs up to its
\* first wait.  Each batch also records how often it has called updateUI and
\* whether Clear has run since it was dropped.
Drop ==
    /\ Len(batches) < MaxBatches
    /\ \E files \in DropBatches(Len(batches) + 1) :
         LET r == Resume(files, 1)
         IN  /\ batches' = Append(batches, [files |-> files, pos |-> r.pos,
                                            ui |-> r.ui, cleared |-> FALSE])
             /\ IF r.ui = 1
                THEN updateUI(loadedFiles) /\ phase' = "updated"
                ELSE /\ UNCHANGED <<correlationMatrix, predictionModels, predictionControls>>
                     /\ phase' = "waiting"
    /\ UNCHANGED <<loadedFiles, statVars, matrixVars, predictVars, rankVars, parseVars>>

\* The text of the file a batch waits for arrives: handleFiles pushes the
\* parsed file onto this.loadedFiles or alerts, and runs on.
TextLoaded ==
    \E k \in 1..Len(batches) :
        /\ batches[k].pos <= Len(batches[k].files)
        /\ LET result == parseFile(batches[k].files[batches[k].pos])
               files == IF result = ParseError THEN loadedFiles
                        ELSE Append(loadedFiles, result)
               r == Resume(batches[k].files, batches[k].pos + 1)
           IN  /\ loadedFiles' = files
               /\ batches' = [batches EXCEPT ![k].pos = r.pos, ![k].ui = @ + r.ui]
               /\ IF r.ui = 1
                  THEN updateUI(files) /\ phase' = "updated"
                  ELSE /\ UNCHANGED <<correlationMatrix, predictionModels, predictionControls>>
                       /\ phase' = "waiting"
        /\ UNCHANGED <<statVars, matrixVars, predictVars, rankVars, parseVars>>

\* The click handler of clearBtn
Clear ==
    /\ loadedFiles' = <<>>
    /\ updateUI(<<>>)
    /\ batches' = [k \in 1..Len(batches) |-> [batches[k] EXCEPT !.cleared = TRUE]]
    /\ phase' = "updated"
    /\ UNCHANGED <<statVars, matrixVars, predictVars, rankVars, parseVars>>

\* The click handler of predictParametersBtn, for the option selected: -1 is
\* the placeholder option, whose value parseInt turns into NaN.  The button is
\* taken to be one of the prediction controls, to be clicked while they show.
Predict ==
    /\ predictionControls.display = "block"
    /\ \E gpsFileIdx \in -1..(predictionControls.options - 1) :
         LET gpsErrorFiles == getGPSErrorFiles(loadedFiles)
         IN  IF \/ gpsFileIdx = -1
                \/ gpsFileIdx + 1 > Len(gpsErrorFiles)
                \/ Len(predictionModels) = 0
             THEN /\ phase' = "alerted"
                  /\ UNCHANGED <<gpsFile, predictions>>
             ELSE /\ phase' = "predicted"
                  /\ gpsFile' = gpsErrorFiles[gpsFileIdx + 1].data
                  /\ predictions' = predictParameters(gpsErrorFiles[gpsFileIdx + 1].data,
                                                      predictionModels)
    /\ UNCHANGED <<models, statVars, matrixVars, rankVars, parseVars, appVars>>

NextApp == Drop \/ TextLoaded \/ Clear \/ Predict

SpecApp == InitApp /\ [][NextApp]_vars

\* The App while files are loaded and cleared, the Predict button left alone.
NextLoad == Drop \/ TextLoaded \/ Clear

SpecLoad == InitApp /\ [][NextLoad]_vars


-----------------------------------------------------------------------------
(* Claims about the App.                                                    *)

SweepsLoaded == getSweepSummaries(loadedFiles)

\* C28 (as the specification states it): after every completed updateUI the
\* cached correlationMatrix and predictionModels are derived from exactly the
\* sweep files in loadedFiles, predictionModels being empty when there is none,
\* and no Predict click yields predictions while no sweep file is loaded.
CacheFollowsLoadedFiles ==
    /\ phase = "updated" =>
          IF Len(SweepsLoaded) = 0
          THEN Len(predictionModels) = 0
          ELSE /\ correlationMatrix = buildCorrelationMatrix(SweepsLoaded)
               /\ predictionModels =
                      getTopPredictionModels(correlationMatrix, Num(15))
    /\ phase = "predicted" => Len(SweepsLoaded) > 0

\* The batch a loaded file came with (every file name holds its batch's number).
OwnerOf(name) ==
    CHOOSE k \in 1..Len(batches) :
        \E i \in 1..Len(batches[k].files) : NameOf(batches[k].files[i]) = name

Owners == [j \in 1..Len(loadedFiles) |-> OwnerOf(loadedFiles[j].name)]

\* C29 (as the specification states it): no file of a batch dropped before a
\* Clear is in loadedFiles after it, and the files of two batches do not
\* interleave in loadedFiles.
ClearedBatchesStayOut ==
    /\ \A j \in 1..Len(loadedFiles) : ~batches[Owners[j]].cleared
    /\ \A i, j, l \in 1..Len(loadedFiles) :
          (i < j /\ j < l /\ Owners[i] = Owners[l]) => Owners[j] = Owners[i]

\* The files of batch k that handleFiles has dealt with and that parsed, in
\* batch order.
Successes(k) ==
    LET results == [i \in 1..(batches[k].pos - 1) |-> parseFile(batches[k].files[i])]
    IN  SelectSeq(results, LAMBDA result : result # ParseError)

\* The loaded files that came with batch k, in the order of loadedFiles.
LoadedOf(k) ==
    LET owners == Owners
        RECURSIVE from(_)
        from(j) == IF j > Len(loadedFiles) THEN <<>>
                   ELSE IF owners[j] = k THEN <<loadedFiles[j]>> \o from(j + 1)
                   ELSE from(j + 1)
    IN  from(1)

IsSuffix(s, t) ==
    /\ Len(s) <= Len(t)
    /\ s = SubSeq(t, Len(t) - Len(s) + 1, Len(t))

\* C30: a file whose parse fails is not in loadedFiles and does not end its
\* batch; the files of a batch that parsed are in loadedFiles in batch order
\* (all of them, unless Clear ran since the drop, which leaves the later ones),
\* loadedFiles holds nothing else, and a batch has called updateUI once when it
\* is through and not before.
FailedFilesSkipped ==
    /\ \A j \in 1..Len(loadedFiles) :
          \E k \in 1..Len(batches) : \E i \in 1..(batches[k].pos - 1) :
              /\ loadedFiles[j] = parseFile(batches[k].files[i])
              /\ loadedFiles[j].name = NameOf(batches[k].files[i])
    /\ \A k \in 1..Len(batches) :
          /\ IF batches[k].cleared
             THEN IsSuffix(LoadedOf(k), Successes(k))
             ELSE LoadedOf(k) = Successes(k)
          /\ batches[k].ui = IF batches[k].pos > Len(batches[k].files) THEN 1 ELSE 0

\* Two batches are through, no Clear in between: a file of each failing kind
\* was among them, and the two files that parsed are loaded.
FailedFilesSkipped_Witness ==
    /\ Len(batches) = 2
    /\ \A k \in 1..2 :
          /\ batches[k].pos > Len(batches[k].files)
          /\ ~batches[k].cleared
          /\ batches[k].ui = 1
    /\ \E k \in 1..2 : \E i \in 1..Len(batches[k].files) :
          ~NeedsText(batches[k].files[i])
    /\ \E k \in 1..2 : \E i \in 1..Len(batches[k].files) :
          /\ LowerCase(batches[k].files[i].ext) = "json"
          /\ parseFile(batches[k].files[i]) = ParseError
    /\ \E k \in 1..2 : \E i \in 1..Len(batches[k].files) :
          /\ LowerCase(batches[k].files[i].ext) = "csv"
          /\ parseFile(batches[k].files[i]) = ParseError
    /\ Len(loadedFiles) = 2
    /\ Owners = <<1, 2>>










====
